---- MODULE Spec2Model ----
(***************************************************************************)
(* Model of the agent loop of zhy0216/agent-loop: the Agent orchestrator   *)
(* (src/src/agent/index.ts), the ToolRegistry (src/src/tools/              *)
(* toolRegistry.ts) and the Tool contract (src/src/tools/baseTool.ts).     *)
(*                                                                         *)
(* JavaScript strings are modelled as sequences of tokens (each token a    *)
(* TLA+ string), so that template literals are concatenations; every       *)
(* JavaScript value the model handles is a record [t, v] whose tag t is    *)
(* "string", "object", "null" or "undefined".  An object is the flat       *)
(* sequence <<key1, value1, key2, value2, ...>> of its own properties.     *)
(*                                                                         *)
(* An async function runs synchronously up to its next await, so each      *)
(* action of the model is one such run-to-suspension segment.              *)
(***************************************************************************)
EXTENDS Integers, Sequences, FiniteSets, TLC

\* ------------------------------------------------------------------ bounds
MaxTurns == 2
MaxResets == 1
MaxRegisters == 1
MaxNow == 1

\* Concurrent processInput invocations the caller may have outstanding.
Slots == {1, 2}

\* -------------------------------------------------------------- JS values
Str(tokens) == [t |-> "string", v |-> tokens]
Obj(props) == [t |-> "object", v |-> props]
Null == [t |-> "null", v |-> <<>>]
Undefined == [t |-> "undefined", v |-> <<>>]

\* JavaScript truthiness of a value: undefined, null and "" are falsy.
Truthy(x) == \/ x.t = "object"
             \/ x.t = "string" /\ x.v # <<>>

\* Object property lookup on the flat key/value sequence.
HasKey(props, k) == \E i \in 1..(Len(props) \div 2) : props[2 * i - 1] = k

\* JSON.stringify of a value: an object becomes the text
\* { "k1" : "v1" , ... }, a string is quoted, null is the text null and
\* undefined stays undefined (JSON.stringify(undefined) is no string).
RECURSIVE StringifyProps(_)
StringifyProps(props) ==
  IF Len(props) < 2 THEN <<>>
  ELSE <<"\"", props[1], "\":\"", props[2], "\"">>
       \o (IF Len(props) > 2 THEN <<",">> ELSE <<>>)
       \o StringifyProps(SubSeq(props, 3, Len(props)))

JSONStringify(x) ==
  CASE x.t = "object" -> Str(<<"{">> \o StringifyProps(x.v) \o <<"}">>)
    [] x.t = "string" -> Str(<<"\"">> \o x.v \o <<"\"">>)
    [] x.t = "null" -> Str(<<"null">>)
    [] OTHER -> Undefined

\* The properties of a JSON object text, or <<"#">> when the text between
\* the braces is no well-formed property list.
RECURSIVE ParseProps(_)
ParseProps(toks) ==
  IF toks = <<>> THEN <<>>
  ELSE IF Len(toks) >= 5 /\ toks[1] = "\"" /\ toks[3] = "\":\"" /\ toks[5] = "\""
            /\ toks[2] \notin {"\"", "\":\"", ",", "{", "}"}
            /\ toks[4] \notin {"\"", "\":\"", ",", "{", "}"}
       THEN IF Len(toks) = 5 THEN <<toks[2], toks[4]>>
            ELSE IF toks[6] = "," /\ Len(toks) > 6
                 THEN LET rest == ParseProps(SubSeq(toks, 7, Len(toks)))
                      IN IF rest = <<"#">> THEN <<"#">>
                         ELSE <<toks[2], toks[4]>> \o rest
                 ELSE <<"#">>
       ELSE <<"#">>

SyntaxErrorMessage == <<"Unexpected token in JSON">>

\* JSON.parse(x): x is first converted to a string (an object converts to
\* "[object Object]", which is no JSON text).  The result is
\* [ok, value, message]: the parsed value, or the SyntaxError's message.
JSONParse(x) ==
  LET toks == x.v
      n == Len(toks)
      fail == [ok |-> FALSE, value |-> Undefined, message |-> SyntaxErrorMessage]
  IN IF x.t # "string" THEN
       IF x.t = "null" THEN [ok |-> TRUE, value |-> Null, message |-> <<>>] ELSE fail
     ELSE IF n >= 2 /\ toks[1] = "{" /\ toks[n] = "}" THEN
       LET props == ParseProps(SubSeq(toks, 2, n - 1))
       IN IF props = <<"#">> THEN fail
          ELSE [ok |-> TRUE, value |-> Obj(props), message |-> <<>>]
     ELSE IF n >= 2 /\ toks[1] = "\"" /\ toks[n] = "\""
             /\ \A i \in 2..(n - 1) : toks[i] \notin {"\"", "\":\""} THEN
       [ok |-> TRUE, value |-> Str(SubSeq(toks, 2, n - 1)), message |-> <<>>]
     ELSE IF toks = <<"null">> THEN [ok |-> TRUE, value |-> Null, message |-> <<>>]
     ELSE fail

\* ------------------------------------------------------------ Tool contract
\* A schema field (one entry of the zod object's shape): kind is the zod
\* class of the field ("string", "number", "boolean", "enum", "array",
\* "optional", or "other" for any class the converter does not know);
\* description is <<>> when the field has none, options the enum's values.
Field(key, kind, description, options) ==
  [key |-> key, kind |-> kind, description |-> description, options |-> options]

CalculatorTool ==
  [name |-> "calculator",
   description |-> "Perform basic arithmetic calculations",
   schema |-> <<Field("expression", "string", <<"Math expression to evaluate">>, <<>>)>>]

WeatherTool ==
  [name |-> "get_weather",
   description |-> "Get the current weather for a given location",
   schema |-> <<Field("location", "string", <<"The city and country to get weather for">>, <<>>),
                Field("unit", "enum", <<"Temperature unit">>, <<"celsius", "fahrenheit">>)>>]

AllTools == {CalculatorTool, WeatherTool}

SupportedKinds == {"string", "number", "boolean", "enum", "array"}

\* The JSON-schema property generated for one field: type, description and
\* enum are "" / <<>> when the key is absent from the property object.
PropertyOf(f) ==
  [name |-> f.key,
   type |-> CASE f.kind \in {"string", "enum"} -> "string"
              [] f.kind = "number" -> "number"
              [] f.kind = "boolean" -> "boolean"
              [] f.kind = "array" -> "array"
              [] OTHER -> "",
   enum |-> IF f.kind = "enum" THEN f.options ELSE <<>>,
   description |-> IF f.kind \in SupportedKinds THEN f.description ELSE <<>>]

RECURSIVE RequiredOf(_)
RequiredOf(schema) ==
  IF schema = <<>> THEN <<>>
  ELSE (IF Head(schema).kind # "optional" THEN <<Head(schema).key>> ELSE <<>>)
       \o RequiredOf(Tail(schema))

\* Mutant: the required key is kept when the list is empty.
convertZodSchemaKeepingRequired(schema) ==
  [type |-> "object",
   properties |-> [i \in 1..Len(schema) |-> PropertyOf(schema[i])],
   hasRequired |-> TRUE,
   required |-> RequiredOf(schema)]

\* Mutant: a field of an unsupported kind is left out of the definition.
convertZodSchemaOmittingUnsupported(schema) ==
  LET supported == SelectSeq(schema, LAMBDA f : f.kind \in SupportedKinds)
  IN [type |-> "object",
      properties |-> [i \in 1..Len(supported) |-> PropertyOf(supported[i])],
      hasRequired |-> supported # <<>>,
      required |-> [i \in 1..Len(supported) |-> supported[i].key]]

\* Tool.convertZodSchemaToJsonSchema: every field of the shape becomes a key
\* of properties; required lists the fields that are no ZodOptional, and the
\* key is deleted when that list is empty.
convertZodSchemaToJsonSchema(schema) ==
  [type |-> "object",
   properties |-> [i \in 1..Len(schema) |-> PropertyOf(schema[i])],
   hasRequired |-> RequiredOf(schema) # <<>>,
   required |-> RequiredOf(schema)]

getFunctionDefinition(tool) ==
  [type |-> "function",
   name |-> tool.name,
   description |-> tool.description,
   parameters |-> convertZodSchemaToJsonSchema(tool.schema)]

\* The value of property k of an object (its first occurrence).
RECURSIVE GetKey(_, _)
GetKey(props, k) ==
  IF Len(props) < 2 THEN ""
  ELSE IF props[1] = k THEN props[2] ELSE GetKey(SubSeq(props, 3, Len(props)), k)

\* Whether an argument object satisfies one field of the schema.
FieldAccepts(f, args) ==
  CASE f.kind = "optional" -> TRUE
    [] f.kind = "enum" ->
         HasKey(args.v, f.key) /\ \E i \in 1..Len(f.options) : f.options[i] = GetKey(args.v, f.key)
    [] OTHER -> HasKey(args.v, f.key)

RECURSIVE ZodIssues(_, _)
ZodIssues(schema, args) ==
  IF schema = <<>> THEN <<>>
  ELSE (IF FieldAccepts(Head(schema), args) THEN <<>> ELSE <<"invalid:", Head(schema).key>>)
       \o ZodIssues(Tail(schema), args)

RECURSIVE StripUnknown(_, _)
StripUnknown(schema, args) ==
  IF schema = <<>> THEN <<>>
  ELSE (IF HasKey(args.v, Head(schema).key)
        THEN <<Head(schema).key, GetKey(args.v, Head(schema).key)>> ELSE <<>>)
       \o StripUnknown(Tail(schema), args)

\* tool.schema.parse(args): [ok, value, message].  A value that is no object
\* is rejected; otherwise every field is checked, and the validated value
\* keeps only the schema's keys.  message is the ZodError's message.
SchemaParse(tool, args) ==
  IF args.t # "object" THEN
    [ok |-> FALSE, value |-> Undefined, message |-> <<"ZodError: expected object">>]
  ELSE IF ZodIssues(tool.schema, args) # <<>> THEN
    [ok |-> FALSE, value |-> Undefined,
     message |-> <<"ZodError: ">> \o ZodIssues(tool.schema, args)]
  ELSE [ok |-> TRUE, value |-> Obj(StripUnknown(tool.schema, args)), message |-> <<>>]

\* ------------------------------------------------------------ ToolRegistry
\* The registry is a Map in insertion order: a sequence of tools.
has(reg, name) == \E i \in 1..Len(reg) : reg[i].name = name

\* ToolRegistry.getTool: the tool registered under the name (callers test
\* has(reg, name) first, which is the code's test for undefined).
getTool(reg, name) == reg[CHOOSE i \in 1..Len(reg) : reg[i].name = name]

getAllTools(reg) == reg

getFunctionDefinitions(reg) ==
  [i \in 1..Len(getAllTools(reg)) |-> getFunctionDefinition(getAllTools(reg)[i])]

\* Map.set under a key the map holds: the value is replaced and the key
\* keeps its position.
Replace(reg, tool) ==
  [i \in 1..Len(reg) |-> IF reg[i].name = tool.name THEN tool ELSE reg[i]]

\* Mutant: a duplicate name overwrites the registered tool.
registerToolOverwriting(reg, tool) ==
  IF has(reg, tool.name) THEN [ok |-> TRUE, reg |-> Replace(reg, tool), message |-> <<>>]
  ELSE [ok |-> TRUE, reg |-> Append(reg, tool), message |-> <<>>]

\* Mutant: a new tool is put in front of the registered ones.
registerToolPrepending(reg, tool) ==
  IF has(reg, tool.name)
  THEN [ok |-> FALSE, reg |-> reg,
        message |-> <<"Tool with name \"", tool.name, "\" is already registered">>]
  ELSE [ok |-> TRUE, reg |-> <<tool>> \o reg, message |-> <<>>]

\* ToolRegistry.registerTool: [ok, reg, message]; a duplicate name throws
\* an Error with the message and leaves the map unchanged.
registerTool(reg, tool) ==
  IF has(reg, tool.name)
  THEN [ok |-> FALSE, reg |-> reg,
        message |-> <<"Tool with name \"", tool.name, "\" is already registered">>]
  ELSE [ok |-> TRUE, reg |-> Append(reg, tool), message |-> <<>>]

\* Mutant: a batch with a duplicate registers nothing.
registryRegisterToolsAtomic(reg, tools) ==
  LET dup(i) == \/ has(reg, tools[i].name)
                \/ \E j \in 1..(i - 1) : tools[j].name = tools[i].name
  IN IF \E i \in 1..Len(tools) : dup(i)
     THEN [ok |-> FALSE, reg |-> reg,
           message |-> <<"Tool with name \"",
                         tools[CHOOSE i \in 1..Len(tools) :
                                 dup(i) /\ \A j \in 1..(i - 1) : ~dup(j)].name,
                         "\" is already registered">>]
     ELSE [ok |-> TRUE, reg |-> reg \o tools, message |-> <<>>]

\* ToolRegistry.registerTools: registerTool on each tool in turn; the first
\* throw ends the loop, keeping what was registered before it.
RECURSIVE registryRegisterTools(_, _)
registryRegisterTools(reg, tools) ==
  IF tools = <<>> THEN [ok |-> TRUE, reg |-> reg, message |-> <<>>]
  ELSE LET r == registerTool(reg, Head(tools))
       IN IF r.ok THEN registryRegisterTools(r.reg, Tail(tools)) ELSE r

\* ------------------------------------------------------------- ToolManager
\* Mutant: a duplicate name warns and keeps the tool registered first.
managerRegisterToolKeepingFirst(tools, tool) ==
  IF has(tools, tool.name) THEN [warned |-> TRUE, tools |-> tools]
  ELSE [warned |-> FALSE, tools |-> Append(tools, tool)]

\* ToolManager.registerTool: [warned, tools]; a duplicate name is warned
\* about and the tool is set under its name all the same.
managerRegisterTool(tools, tool) ==
  IF has(tools, tool.name) THEN [warned |-> TRUE, tools |-> Replace(tools, tool)]
  ELSE [warned |-> FALSE, tools |-> Append(tools, tool)]

\* ToolManager.registerTools: registerTool on each tool in turn.
RECURSIVE managerRegisterTools(_, _)
managerRegisterTools(tools, batch) ==
  IF batch = <<>> THEN [warned |-> FALSE, tools |-> tools]
  ELSE LET r == managerRegisterTool(tools, Head(batch))
           rest == managerRegisterTools(r.tools, Tail(batch))
       IN [warned |-> r.warned \/ rest.warned, tools |-> rest.tools]

\* ---------------------------------------------------------------- messages
\* A ToolCall {id, type: 'function', function: {name, arguments}}; the
\* legacy function_call field {name, arguments} is the same record with
\* id "".  arguments is a JS value (a string on the wire, by the type).
ToolCall(id, name, arguments) == [id |-> id, name |-> name, arguments |-> arguments]

NoCall == ToolCall("", "", Undefined)

\* A chat message.  tool_call_id is "" when the property is absent;
\* has_tool_calls is Array.isArray(message.tool_calls); has_function_call
\* is the truthiness of message.function_call.
Message(role, content) ==
  [role |-> role, content |-> content, tool_call_id |-> "",
   has_tool_calls |-> FALSE, tool_calls |-> <<>>,
   has_function_call |-> FALSE, function_call |-> NoCall]

ToolMessage(content, id) == [Message("tool", content) EXCEPT !.tool_call_id = id]

\* ------------------------------------------------------ system prompt builder
DefaultPrompt == "You are a helpful AI assistant that can use tools to accomplish tasks."

Instructions == "\nIMPORTANT INSTRUCTIONS FOR USING TOOLS: ... 6. Always wait for tool results before providing a final response\n"

RECURSIVE Join(_, _)
Join(xs, sep) ==
  IF xs = <<>> THEN <<>>
  ELSE IF Len(xs) = 1 THEN <<xs[1]>>
  ELSE <<xs[1], sep>> \o Join(Tail(xs), sep)

ParamLine(details) ==
  <<"- ", details.name>>
  \o (IF details.type # "" THEN <<" (", details.type, ")">> ELSE <<>>)
  \o (IF details.description # <<>> THEN <<": ">> \o details.description ELSE <<>>)
  \o (IF details.enum # <<>> THEN <<" Options: ">> \o Join(details.enum, ", ") ELSE <<>>)
  \o <<"\n">>

RECURSIVE ParamLines(_)
ParamLines(properties) ==
  IF properties = <<>> THEN <<>>
  ELSE ParamLine(Head(properties)) \o ParamLines(Tail(properties))

\* Mutant: the section of a tool ends after its parameters, without the
\* example-usage line.
ToolSectionWithoutExample(functionDef) ==
  <<"Tool: ", functionDef.name, "\n", "Description: ", functionDef.description, "\n">>
  \o <<"Parameters:\n">> \o ParamLines(functionDef.parameters.properties) \o <<"\n">>

ToolSection(functionDef) ==
  <<"Tool: ", functionDef.name, "\n", "Description: ", functionDef.description, "\n">>
  \o <<"Parameters:\n">> \o ParamLines(functionDef.parameters.properties)
  \o <<"Example usage: Call the ", functionDef.name, " function with the proper parameters\n\n">>

RECURSIVE ToolSections(_)
ToolSections(tools) ==
  IF tools = <<>> THEN <<>>
  ELSE ToolSection(getFunctionDefinition(Head(tools))) \o ToolSections(Tail(tools))

toolsDescription(tools) ==
  <<"You have access to the following tools:\n\n">> \o ToolSections(tools) \o <<Instructions>>

\* Mutant: the refresh inserts a fresh system message at the front instead
\* of replacing the content of the one that is there.
updateSystemPromptWithToolsUnshift(msgs, reg, cfg) ==
  LET tools == getAllTools(reg)
  IN IF Len(tools) = 0 THEN msgs
     ELSE <<Message("system",
                    Str((IF Truthy(cfg.systemPrompt) THEN cfg.systemPrompt.v ELSE <<DefaultPrompt>>)
                        \o <<"\n\n">> \o toolsDescription(tools)))>> \o msgs

\* config.systemPrompt || default
baseSystemPrompt(cfg) ==
  IF Truthy(cfg.systemPrompt) THEN cfg.systemPrompt.v ELSE <<DefaultPrompt>>

\* Mutant: the refresh appends the tools description to the content that is
\* there instead of rebuilding the content from the base prompt.
updateSystemPromptWithToolsAppending(msgs, reg, cfg) ==
  LET tools == getAllTools(reg)
  IN IF Len(tools) = 0 THEN msgs
     ELSE IF Len(msgs) > 0 /\ msgs[1].role = "system"
          THEN [msgs EXCEPT ![1].content =
                  Str((IF msgs[1].content.t = "string" THEN msgs[1].content.v
                       ELSE baseSystemPrompt(cfg))
                      \o <<"\n\n">> \o toolsDescription(tools))]
          ELSE msgs

\* Agent.updateSystemPromptWithTools: the message log after the refresh.
\* Nothing changes for an empty registry; otherwise the content of
\* messages[0] is replaced, if that message exists and has role system.
updateSystemPromptWithTools(msgs, reg, cfg) ==
  LET tools == getAllTools(reg)
  IN IF Len(tools) = 0 THEN msgs
     ELSE IF Len(msgs) > 0 /\ msgs[1].role = "system"
          THEN [msgs EXCEPT ![1].content =
                  Str(baseSystemPrompt(cfg) \o <<"\n\n">> \o toolsDescription(tools))]
          ELSE msgs

\* Agent.resetState: the fresh state {messages, toolCalls}.
resetState(reg, cfg) ==
  [messages |-> updateSystemPromptWithTools(<<Message("system", cfg.systemPrompt)>>, reg, cfg),
   toolCalls |-> <<>>]

\* ------------------------------------------------------- tool-call extractor
\* The markdown fence that opens a json block and the fence that closes it.
FenceOpen == "[fence json]"

FenceClose == "[fence]"

\* The extractor's regular expression (fence-json, optional white space, a
\* lazily matched brace block, optional white space, fence) on the content's
\* tokens: the leftmost FenceOpen token that is followed by "{", then the
\* nearest "}" that is followed by FenceClose.  The result is <<i, j>>, the
\* positions of the braces, or <<0, 0>> for no match.
FenceEnds(toks, i) ==
  {j \in (i + 2)..(Len(toks) - 1) : toks[j] = "}" /\ toks[j + 1] = FenceClose}

FenceStarts(toks) ==
  {i \in 1..Len(toks) : /\ toks[i] = FenceOpen
                        /\ i + 1 <= Len(toks) /\ toks[i + 1] = "{"
                        /\ FenceEnds(toks, i) # {}}

Min(S) == CHOOSE x \in S : \A y \in S : x <= y

functionCallMatch(toks) ==
  IF FenceStarts(toks) = {} THEN <<0, 0>>
  ELSE LET i == Min(FenceStarts(toks))
       IN <<i + 1, Min(FenceEnds(toks, i))>>

\* JSON.parse of the captured block, read through the two properties the
\* extractor uses.  The block's text is
\*   { "name": <value> , "arguments": <value> }
\* with either member optional; <value> is any JSON text JSONParse reads.
\* [ok, name, arguments]: a property that is absent reads as Undefined.
ParseCallObject(toks) ==
  LET n == Len(toks)
      bad == [ok |-> FALSE, name |-> Undefined, arguments |-> Undefined]
      inner == SubSeq(toks, 2, n - 1)
      m == Len(inner)
      commas == {k \in 1..m : inner[k] = "," /\ k + 1 <= m /\ inner[k + 1] = "\"arguments\":"}
      member(ts) ==
        IF Len(ts) >= 2 /\ ts[1] \in {"\"name\":", "\"arguments\":"}
        THEN [key |-> ts[1], val |-> JSONParse(Str(Tail(ts)))]
        ELSE [key |-> "", val |-> JSONParse(Str(<<>>))]
      one(ts) ==
        LET mem == member(ts)
        IN IF ~mem.val.ok THEN bad
           ELSE [ok |-> TRUE,
                 name |-> IF mem.key = "\"name\":" THEN mem.val.value ELSE Undefined,
                 arguments |-> IF mem.key = "\"arguments\":" THEN mem.val.value ELSE Undefined]
  IN IF n < 2 \/ toks[1] # "{" \/ toks[n] # "}" THEN bad
     ELSE IF inner = <<>> THEN [ok |-> TRUE, name |-> Undefined, arguments |-> Undefined]
     ELSE IF commas = {} THEN one(inner)
     ELSE LET k == Min(commas)
              a == one(SubSeq(inner, 1, k - 1))
              b == one(SubSeq(inner, k + 1, m))
          IN IF a.ok /\ b.ok /\ a.name # Undefined /\ a.arguments = Undefined
                /\ b.arguments # Undefined
             THEN [ok |-> TRUE, name |-> a.name, arguments |-> b.arguments]
             ELSE bad

\* The synthetic id: the text call_ followed by Date.now().
SyntheticId(clock) == "call_" \o ToString(clock)

\* parsedJson.name as the call's function name (a string in every case
\* the model produces; any other value is carried as the empty name).
NameOf(x) == IF x.t = "string" /\ Len(x.v) = 1 THEN x.v[1] ELSE ""

\* Mutant: the calls of the legacy function_call field are added to those of
\* the structured list.
extractToolCallsMerging(assistantMessage, clock) ==
  IF assistantMessage.has_tool_calls THEN
    assistantMessage.tool_calls
    \o (IF assistantMessage.has_function_call
        THEN <<ToolCall(SyntheticId(clock), assistantMessage.function_call.name,
                        assistantMessage.function_call.arguments)>>
        ELSE <<>>)
  ELSE IF assistantMessage.has_function_call THEN
    <<ToolCall(SyntheticId(clock), assistantMessage.function_call.name,
               assistantMessage.function_call.arguments)>>
  ELSE IF assistantMessage.content.t = "string" THEN
    LET toks == assistantMessage.content.v
        match == functionCallMatch(toks)
    IN IF match = <<0, 0>> THEN <<>>
       ELSE LET parsedJson == ParseCallObject(SubSeq(toks, match[1], match[2]))
            IN IF parsedJson.ok /\ Truthy(parsedJson.name) /\ Truthy(parsedJson.arguments)
               THEN <<ToolCall(SyntheticId(clock), NameOf(parsedJson.name),
                               IF parsedJson.arguments.t = "string"
                               THEN parsedJson.arguments
                               ELSE JSONStringify(parsedJson.arguments))>>
               ELSE <<>>
  ELSE <<>>

\* Mutant: a fenced object needs a name only.
extractToolCallsLenient(assistantMessage, clock) ==
  IF assistantMessage.has_tool_calls THEN assistantMessage.tool_calls
  ELSE IF assistantMessage.has_function_call THEN
    <<ToolCall(SyntheticId(clock), assistantMessage.function_call.name,
               assistantMessage.function_call.arguments)>>
  ELSE IF assistantMessage.content.t = "string" THEN
    LET toks == assistantMessage.content.v
        match == functionCallMatch(toks)
    IN IF match = <<0, 0>> THEN <<>>
       ELSE LET parsedJson == ParseCallObject(SubSeq(toks, match[1], match[2]))
            IN IF parsedJson.ok /\ Truthy(parsedJson.name)
               THEN <<ToolCall(SyntheticId(clock), NameOf(parsedJson.name),
                               IF parsedJson.arguments.t = "string"
                               THEN parsedJson.arguments
                               ELSE JSONStringify(parsedJson.arguments))>>
               ELSE <<>>
  ELSE <<>>

\* Mutant: the arguments of a fenced object are passed on as parsed.
extractToolCallsRaw(assistantMessage, clock) ==
  IF assistantMessage.has_tool_calls THEN assistantMessage.tool_calls
  ELSE IF assistantMessage.has_function_call THEN
    <<ToolCall(SyntheticId(clock), assistantMessage.function_call.name,
               assistantMessage.function_call.arguments)>>
  ELSE IF assistantMessage.content.t = "string" THEN
    LET toks == assistantMessage.content.v
        match == functionCallMatch(toks)
    IN IF match = <<0, 0>> THEN <<>>
       ELSE LET parsedJson == ParseCallObject(SubSeq(toks, match[1], match[2]))
            IN IF parsedJson.ok /\ Truthy(parsedJson.name) /\ Truthy(parsedJson.arguments)
               THEN <<ToolCall(SyntheticId(clock), NameOf(parsedJson.name),
                               parsedJson.arguments)>>
               ELSE <<>>
  ELSE <<>>

\* extractToolCalls taking the first non-empty result of the three shapes.
extractToolCallsFirstNonEmpty(assistantMessage, clock) ==
  IF assistantMessage.has_tool_calls /\ assistantMessage.tool_calls # <<>>
  THEN assistantMessage.tool_calls
  ELSE IF assistantMessage.has_function_call THEN
    <<ToolCall(SyntheticId(clock), assistantMessage.function_call.name,
               assistantMessage.function_call.arguments)>>
  ELSE IF assistantMessage.content.t = "string" THEN
    LET toks == assistantMessage.content.v
        match == functionCallMatch(toks)
    IN IF match = <<0, 0>> THEN <<>>
       ELSE LET parsedJson == ParseCallObject(SubSeq(toks, match[1], match[2]))
            IN IF parsedJson.ok /\ Truthy(parsedJson.name) /\ Truthy(parsedJson.arguments)
               THEN <<ToolCall(SyntheticId(clock), NameOf(parsedJson.name),
                               IF parsedJson.arguments.t = "string"
                               THEN parsedJson.arguments
                               ELSE JSONStringify(parsedJson.arguments))>>
               ELSE <<>>
  ELSE <<>>

\* Agent.extractToolCalls at time clock.
extractToolCalls(assistantMessage, clock) ==
  IF assistantMessage.has_tool_calls THEN assistantMessage.tool_calls
  ELSE IF assistantMessage.has_function_call THEN
    <<ToolCall(SyntheticId(clock), assistantMessage.function_call.name,
               assistantMessage.function_call.arguments)>>
  ELSE IF assistantMessage.content.t = "string" THEN
    LET toks == assistantMessage.content.v
        match == functionCallMatch(toks)
    IN IF match = <<0, 0>> THEN <<>>
       ELSE LET parsedJson == ParseCallObject(SubSeq(toks, match[1], match[2]))
            IN IF parsedJson.ok /\ Truthy(parsedJson.name) /\ Truthy(parsedJson.arguments)
               THEN <<ToolCall(SyntheticId(clock), NameOf(parsedJson.name),
                               IF parsedJson.arguments.t = "string"
                               THEN parsedJson.arguments
                               ELSE JSONStringify(parsedJson.arguments))>>
               ELSE <<>>
  ELSE <<>>

\* ------------------------------------------------------------------- state
VARIABLES
  registry,    \* ToolRegistry.tools, in insertion order
  config,      \* AgentConfig (fixed at construction)
  state,       \* Agent.state: [messages, toolCalls]
  turn,        \* per caller slot: the locals and position of its processInput
  clock,       \* Date.now()
  emitted,     \* history: every emit(event, data), in order
  requests,    \* history: every createChatCompletion request, in order
  executions,  \* history: every tool.execute invocation and its settling
  started,     \* number of processInput calls made so far
  resets,      \* number of reset() calls made so far
  registers,   \* number of registerTools() calls made so far
  last,        \* history: the operation that ran last
  manager,     \* ToolManager.tools of a ToolManager instance, in insertion order
  direct,      \* the call a caller made on the ToolRegistry or the ToolManager itself
  eventListeners \* Agent.eventListeners: per event, the listeners in subscription order

vars == <<registry, config, state, turn, clock, emitted, requests, executions,
          started, resets, registers, last, manager, direct, eventListeners>>

\* The listener functions a caller subscribes, and how many subscriptions
\* it makes at most.
Listeners == {"first", "second"}

MaxListeners == 2

\* A failure value (a thrown Error): its name and message.
Failure(name, message) == [name |-> name, message |-> message]

NoFailure == Failure("", <<>>)

\* A call made directly on a ToolRegistry or ToolManager (target, op), with
\* the tool name and arguments it was given, how it settled (status is
\* "none" before any call, "pending" while execute runs, "returned" or
\* "threw"; value is what it returned and error what it threw), the tools
\* a registration was given, whether the tool's execute was invoked, with
\* what, and the message it threw (invoked, passed, thrown), whether
\* console.warn was called (warned), and the number of calls made so far.
NoDirect ==
  [target |-> "", op |-> "", name |-> "", args |-> Undefined, tools |-> <<>>,
   status |-> "none", value |-> Undefined, error |-> NoFailure, invoked |-> FALSE,
   passed |-> Undefined, thrown |-> <<>>, warned |-> FALSE, calls |-> 0]

\* What the chat-completion collaborator throws when it fails.
UpstreamError == Failure("APIError", <<"upstream request failed">>)

\* What processInput settled with: status is "none" while no call has
\* settled in the slot, "resolved" with {message, toolsUsed}, or "rejected"
\* with the failure.
Outcome(status, message, toolsUsed, error) ==
  [status |-> status, message |-> message, toolsUsed |-> toolsUsed, error |-> error]

\* The locals of one processInput call.  pc is the await it is suspended
\* at: "Idle" (no call in progress), "AwaitingModel" (first
\* createChatCompletion), "ExecutingTool" (executeTool inside
\* processToolCall), "ToolDone" (processToolCall has returned and the loop's
\* await has not resumed yet), "AwaitingFinalModel" (getFinalResponse).
IdleTurn ==
  [pc |-> "Idle", id |-> 0, input |-> "", tools |-> <<>>, toolCalls |-> <<>>, i |-> 0,
   toolsUsed |-> <<>>, args |-> Undefined, pending |-> "none", error |-> NoFailure,
   outcome |-> Outcome("none", <<>>, <<>>, NoFailure)]

\* The values of AgentEvent.
AgentEvents == {"thinking", "tool_start", "tool_end", "response", "error"}

\* The Map of a new agent: no listener for any event.
NoListeners == [event \in AgentEvents |-> <<>>]

\* Mutant: emit calls the listeners of every event.
listenersOfAnyEvent(event) ==
  eventListeners["thinking"] \o eventListeners["tool_start"] \o eventListeners["tool_end"]
  \o eventListeners["response"] \o eventListeners["error"]

\* The listeners emit calls, in the order it calls them:
\* this.eventListeners.get(event) || [].
listenersOf(event) == eventListeners[event]

\* One emit(event, data): data is text (thinking), {tool, value} (tool_start
\* with the arguments, tool_end with the result), message (response) or
\* error (error).  turn is the processInput call that emitted it.  listeners
\* are the listeners emit called with (event, data), in call order, and
\* system is the content of the system message they could read from the
\* agent while they ran (only processInput's opening segment both emits
\* and rewrites that message, and sets the field itself).
Event(id, event) ==
  [turn |-> id, event |-> event, text |-> <<>>, tool |-> "", value |-> Undefined,
   message |-> Message("", Undefined), error |-> NoFailure,
   listeners |-> listenersOf(event), system |-> state.messages[1].content]

\* Agent.emit
emit(log, e) == Append(log, e)

\* One createChatCompletion request: which turn dispatched it, the message
\* history it carries and its tools field (absent when has_tools is FALSE).
Request(id, msgs, hasTools, tools) ==
  [turn |-> id, messages |-> msgs, has_tools |-> hasTools, tools |-> tools]

\* One entry of the execution history: tool.execute was invoked for call
\* number index of the turn ("invoke"), or that invocation settled.
Execution(id, index, call, phase) ==
  [turn |-> id, index |-> index, id |-> call.id, tool |-> call.name, phase |-> phase]

\* ------------------------------------------------------------------ inputs
Inputs == {"use tool"}

ValidCalculatorArgs == JSONStringify(Obj(<<"expression", "2 + 2">>))

ValidWeatherArgs == JSONStringify(Obj(<<"location", "Paris", "unit", "celsius">>))

EmptyArgs == Str(<<"{", "}">>)

GarbageArgs == Str(<<"oops">>)

Assistant(content) == Message("assistant", content)

WithToolCalls(msg, calls) == [msg EXCEPT !.has_tool_calls = TRUE, !.tool_calls = calls]

WithFunctionCall(msg, name, arguments) ==
  [msg EXCEPT !.has_function_call = TRUE, !.function_call = ToolCall("", name, arguments)]

\* The text of a fenced json block that holds {name, arguments: {...}}.
FencedCall(name, arguments) ==
  <<FenceOpen, "{", "\"name\":", "\"", name, "\"", ",", "\"arguments\":">>
  \o JSONStringify(arguments).v \o <<"}", FenceClose>>

\* The assistant messages the collaborator may answer with.
Responses ==
  { Assistant(Str(<<"This is a mock response">>)),
    WithToolCalls(Assistant(Null), <<ToolCall("call-a", "calculator", ValidCalculatorArgs)>>),
    WithToolCalls(Assistant(Null), <<ToolCall("call-a", "calculator", ValidCalculatorArgs),
                                     ToolCall("call-b", "get_weather", ValidWeatherArgs)>>),
    WithToolCalls(Assistant(Null), <<ToolCall("call-a", "calculator", EmptyArgs),
                                     ToolCall("call-b", "calculator", ValidCalculatorArgs)>>),
    WithToolCalls(Assistant(Null), <<ToolCall("call-a", "get_weather", GarbageArgs),
                                     ToolCall("call-b", "calculator", ValidCalculatorArgs)>>),
    WithFunctionCall(Assistant(Null), "calculator", Obj(<<"expression", "2 + 2">>)),
    Assistant(Str(<<"I need to use a tool\n">>
                  \o FencedCall("calculator", Obj(<<"expression", "2 + 2">>)))) }

\* What the tools' execute may return (each tool its own result type), and
\* the message a failing execute may throw.
ResultsOf(name) ==
  IF name = "calculator" THEN {Obj(<<"result", "4">>)}
  ELSE {Obj(<<"temperature", "22", "conditions", "Sunny">>)}

Results == UNION {ResultsOf(tool.name) : tool \in AllTools}

ToolErrors == {<<"boom">>}

\* The registries an agent may be constructed with, the configurations,
\* and the batches registerTools may be called with.
InitialRegistries == {<<>>, <<CalculatorTool>>}

Configs == {[systemPrompt |-> Undefined], [systemPrompt |-> Str(<<"You are a test assistant">>)]}

Batches == {<<WeatherTool>>, <<WeatherTool, CalculatorTool>>}

\* What the collaborator may answer to the final request of a turn.
FinalResponses ==
  { Assistant(Str(<<"This is a mock response">>)),
    WithToolCalls(Assistant(Null), <<ToolCall("call-z", "calculator", ValidCalculatorArgs)>>) }

\* ----------------------------------------------------------------- actions
Init ==
  /\ registry \in InitialRegistries
  /\ config \in Configs
  /\ state = resetState(registry, config)
  /\ turn = [t \in Slots |-> IdleTurn]
  /\ clock = 0
  /\ emitted = <<>>
  /\ requests = <<>>
  /\ executions = <<>>
  /\ started = 0
  /\ resets = 0
  /\ registers = 0
  /\ last = [op |-> "constructor", slot |-> 0, ok |-> TRUE]
  /\ manager = <<>>
  /\ direct = NoDirect
  /\ eventListeners = NoListeners

\* typeof x === 'object' (true of null as well).
TypeofObject(x) == x.t \in {"object", "null"}

\* The message text processInput returns for an assistant content:
\* the content if it is a string, else JSON.stringify(content) ?? ''.
ResponseText(content) ==
  IF content.t = "string" THEN content.v
  ELSE IF JSONStringify(content).t = "string" THEN JSONStringify(content).v ELSE <<>>

\* Mutant: the failure is wrapped with the tool's name before it is shown.
ErrorMessageWrapped(message, call) ==
  ToolMessage(Str(<<"Error: ", "Error executing tool \"", call.name, "\": ">> \o message), call.id)

\* The tool-role message processToolCall's catch block appends.
ErrorMessage(message, call) == ToolMessage(Str(<<"Error: ">> \o message), call.id)

\* Mutant: the tool message is tagged with the tool's name, not the call id.
ResultMessageByName(result, call) == ToolMessage(JSONStringify(result), call.name)

\* Mutant: the result is reported in an assistant-role message.
ResultMessageAsAssistant(result, call) ==
  [Message("assistant", JSONStringify(result)) EXCEPT !.tool_call_id = call.id]

\* The tool-role message appended for a result.
ResultMessage(result, call) == ToolMessage(JSONStringify(result), call.id)

\* The record pushed on state.toolCalls for a result.
ToolCallRecord(call, args, result) ==
  [id |-> call.id, name |-> call.name, args |-> args, response |-> result]

\* Mutant: a tool that is not registered is reported to the model with an
\* error message instead of being skipped.
processToolCallBeginReporting(call, reg, id, k) ==
  LET parsed == JSONParse(call.arguments)
      args == IF parsed.ok THEN parsed.value ELSE call.arguments
      stay == [pc |-> "ToolDone", messages |-> <<>>, emitted |-> <<>>, executions |-> <<>>,
               args |-> Undefined, pending |-> "none", error |-> NoFailure]
  IN IF ~has(reg, call.name) THEN
       [stay EXCEPT !.messages = <<ErrorMessage(<<"Tool \"", call.name, "\" not found">>, call)>>]
     ELSE IF ~parsed.ok /\ ~TypeofObject(call.arguments) THEN
       [stay EXCEPT !.messages = <<ErrorMessage(parsed.message, call)>>]
     ELSE LET validated == SchemaParse(getTool(reg, call.name), args)
              start == [Event(id, "tool_start") EXCEPT !.tool = call.name, !.value = args]
          IN IF ~validated.ok THEN
               [stay EXCEPT !.pc = "ExecutingTool", !.emitted = <<start>>, !.args = args,
                            !.pending = "invalid",
                            !.error = Failure("ZodError", validated.message)]
             ELSE
               [stay EXCEPT !.pc = "ExecutingTool", !.emitted = <<start>>, !.args = args,
                            !.pending = "running",
                            !.executions = <<Execution(id, k, call, "invoke")>>]

\* Mutant: tool_start is emitted before the arguments are parsed, with the
\* arguments as received.
processToolCallBeginStartFirst(call, reg, id, k) ==
  LET parsed == JSONParse(call.arguments)
      args == IF parsed.ok THEN parsed.value ELSE call.arguments
      start == [Event(id, "tool_start") EXCEPT !.tool = call.name, !.value = call.arguments]
      stay == [pc |-> "ToolDone", messages |-> <<>>, emitted |-> <<>>, executions |-> <<>>,
               args |-> Undefined, pending |-> "none", error |-> NoFailure]
  IN IF ~has(reg, call.name) THEN stay
     ELSE IF ~parsed.ok /\ ~TypeofObject(call.arguments) THEN
       [stay EXCEPT !.emitted = <<start>>, !.messages = <<ErrorMessage(parsed.message, call)>>]
     ELSE LET validated == SchemaParse(getTool(reg, call.name), args)
          IN IF ~validated.ok THEN
               [stay EXCEPT !.pc = "ExecutingTool", !.emitted = <<start>>, !.args = args,
                            !.pending = "invalid",
                            !.error = Failure("ZodError", validated.message)]
             ELSE
               [stay EXCEPT !.pc = "ExecutingTool", !.emitted = <<start>>, !.args = args,
                            !.pending = "running",
                            !.executions = <<Execution(id, k, call, "invoke")>>]

\* Mutant: arguments that do not parse are handed to executeTool as they
\* were received.
processToolCallBeginLenient(call, reg, id, k) ==
  LET parsed == JSONParse(call.arguments)
      args == IF parsed.ok THEN parsed.value ELSE call.arguments
      stay == [pc |-> "ToolDone", messages |-> <<>>, emitted |-> <<>>, executions |-> <<>>,
               args |-> Undefined, pending |-> "none", error |-> NoFailure]
  IN IF ~has(reg, call.name) THEN stay
     ELSE LET start == [Event(id, "tool_start") EXCEPT !.tool = call.name, !.value = args]
          IN [stay EXCEPT !.pc = "ExecutingTool", !.emitted = <<start>>, !.args = args,
                          !.pending = "running",
                          !.executions = <<Execution(id, k, call, "invoke")>>]

\* Agent.processToolCall, from its start to its first suspension, for call
\* number k of turn id: what it appends to messages, emitted and
\* executions, and where it is left (pc, args, pending, error).
\*  - tool not found: it returns at once, appending nothing;
\*  - the arguments neither parse as JSON nor are an object: the parse error
\*    is caught by the method's own catch, which appends the error message;
\*  - otherwise tool_start is emitted and executeTool is entered: a schema
\*    failure leaves its promise rejected ("invalid"), else execute has been
\*    invoked ("running"); either way the method is suspended on the await.
processToolCallBegin(call, reg, id, k) ==
  LET parsed == JSONParse(call.arguments)
      args == IF parsed.ok THEN parsed.value ELSE call.arguments
      stay == [pc |-> "ToolDone", messages |-> <<>>, emitted |-> <<>>, executions |-> <<>>,
               args |-> Undefined, pending |-> "none", error |-> NoFailure]
  IN IF ~has(reg, call.name) THEN stay
     ELSE IF ~parsed.ok /\ ~TypeofObject(call.arguments) THEN
       [stay EXCEPT !.messages = <<ErrorMessage(parsed.message, call)>>]
     ELSE LET validated == SchemaParse(getTool(reg, call.name), args)
              start == [Event(id, "tool_start") EXCEPT !.tool = call.name, !.value = args]
          IN IF ~validated.ok THEN
               [stay EXCEPT !.pc = "ExecutingTool", !.emitted = <<start>>, !.args = args,
                            !.pending = "invalid",
                            !.error = Failure("ZodError", validated.message)]
             ELSE
               [stay EXCEPT !.pc = "ExecutingTool", !.emitted = <<start>>, !.args = args,
                            !.pending = "running",
                            !.executions = <<Execution(id, k, call, "invoke")>>]

\* Agent.getFinalResponse up to its await: the second request, without a
\* tools field, carrying the message history as it is now.
getFinalResponseBegin(t, tr, msgs, ev) ==
  /\ state' = [state EXCEPT !.messages = msgs]
  /\ emitted' = ev
  /\ requests' = Append(requests, Request(tr.id, msgs, FALSE, <<>>))
  /\ turn' = [turn EXCEPT ![t] = [tr EXCEPT !.pc = "AwaitingFinalModel"]]
  /\ UNCHANGED executions

\* Mutant: processToolCall is not awaited, so the next call's execute is
\* invoked while the current one is still running.
continueLoopNoAwait(t, tr, msgs, ev) ==
  IF tr.i <= Len(tr.toolCalls) THEN
    LET d == processToolCallBegin(tr.toolCalls[tr.i], registry, tr.id, tr.i)
        eager == IF d.pending = "running" /\ tr.i < Len(tr.toolCalls)
                 THEN processToolCallBegin(tr.toolCalls[tr.i + 1], registry, tr.id, tr.i + 1).executions
                 ELSE <<>>
    IN /\ state' = [state EXCEPT !.messages = msgs \o d.messages]
       /\ emitted' = ev \o d.emitted
       /\ executions' = executions \o d.executions \o eager
       /\ turn' = [turn EXCEPT ![t] = [tr EXCEPT !.pc = d.pc, !.args = d.args,
                                                 !.pending = d.pending, !.error = d.error]]
       /\ UNCHANGED requests
  ELSE getFinalResponseBegin(t, tr, msgs, ev)

\* Mutant: the model is asked again after every tool call.
continueLoopAsking(t, tr, msgs, ev) ==
  IF tr.i <= Len(tr.toolCalls) THEN
    LET d == processToolCallBegin(tr.toolCalls[tr.i], registry, tr.id, tr.i)
    IN /\ state' = [state EXCEPT !.messages = msgs \o d.messages]
       /\ emitted' = ev \o d.emitted
       /\ executions' = executions \o d.executions
       /\ turn' = [turn EXCEPT ![t] = [tr EXCEPT !.pc = d.pc, !.args = d.args,
                                                 !.pending = d.pending, !.error = d.error]]
       /\ requests' = IF tr.i > 1 THEN Append(requests, Request(tr.id, msgs, FALSE, <<>>))
                      ELSE requests
  ELSE getFinalResponseBegin(t, tr, msgs, ev)

\* The for loop of processInput from call number tr.i on, up to the next
\* suspension: the next call is begun, or, after the last call,
\* getFinalResponse is entered.
continueLoop(t, tr, msgs, ev) ==
  IF tr.i <= Len(tr.toolCalls) THEN
    LET d == processToolCallBegin(tr.toolCalls[tr.i], registry, tr.id, tr.i)
    IN /\ state' = [state EXCEPT !.messages = msgs \o d.messages]
       /\ emitted' = ev \o d.emitted
       /\ executions' = executions \o d.executions
       /\ turn' = [turn EXCEPT ![t] = [tr EXCEPT !.pc = d.pc, !.args = d.args,
                                                 !.pending = d.pending, !.error = d.error]]
       /\ UNCHANGED requests
  ELSE getFinalResponseBegin(t, tr, msgs, ev)

\* Mutant: processInput waits for a per-instance lock.
mayStartLocked(t) == \A s \in Slots : turn[s].pc = "Idle"

\* Whether processInput may be entered in slot t: the method takes no lock
\* and tests nothing, so all it needs is a caller (a free slot), whatever
\* the other calls in progress are doing.
mayStart(t) == turn[t].pc = "Idle"

\* Mutant: the tools field is always sent, as an empty array when no tool
\* is registered.
processInputAlwaysTools(t, input) ==
  /\ mayStart(t)
  /\ started < MaxTurns
  /\ LET id == started + 1
         pushed == Append(state.messages, Message("user", Str(<<input>>)))
         tools == getFunctionDefinitions(registry)
         thinking == [Event(id, "thinking") EXCEPT
                        !.text = <<"Agent has access to ", ToString(Len(tools)), " tools">>,
                        !.system = pushed[1].content]
         msgs == updateSystemPromptWithTools(pushed, registry, config)
     IN /\ state' = [state EXCEPT !.messages = msgs]
        /\ emitted' = IF Len(tools) > 0 THEN emit(emitted, thinking) ELSE emitted
        /\ requests' = Append(requests, Request(id, msgs, TRUE, tools))
        /\ turn' = [turn EXCEPT ![t] = [IdleTurn EXCEPT !.pc = "AwaitingModel", !.id = id,
                                                        !.input = input, !.tools = tools]]
        /\ started' = id
  /\ last' = [op |-> "processInput", slot |-> t, ok |-> TRUE]
  /\ UNCHANGED <<manager, direct, eventListeners>>
  /\ UNCHANGED <<registry, config, clock, executions, resets, registers>>

\* Mutant: the system prompt is refreshed before thinking is emitted.
processInputRefreshingFirst(t, input) ==
  /\ mayStart(t)
  /\ started < MaxTurns
  /\ LET id == started + 1
         pushed == Append(state.messages, Message("user", Str(<<input>>)))
         tools == getFunctionDefinitions(registry)
         msgs == updateSystemPromptWithTools(pushed, registry, config)
         thinking == [Event(id, "thinking") EXCEPT
                        !.text = <<"Agent has access to ", ToString(Len(tools)), " tools">>,
                        !.system = msgs[1].content]
     IN /\ state' = [state EXCEPT !.messages = msgs]
        /\ emitted' = IF Len(tools) > 0 THEN emit(emitted, thinking) ELSE emitted
        /\ requests' = Append(requests, Request(id, msgs, Len(tools) > 0, tools))
        /\ turn' = [turn EXCEPT ![t] = [IdleTurn EXCEPT !.pc = "AwaitingModel", !.id = id,
                                                        !.input = input, !.tools = tools]]
        /\ started' = id
  /\ last' = [op |-> "processInput", slot |-> t, ok |-> TRUE]
  /\ UNCHANGED <<manager, direct, eventListeners>>
  /\ UNCHANGED <<registry, config, clock, executions, resets, registers>>

\* Agent.processInput up to the first await: the user message is appended,
\* the function definitions are read, thinking is emitted if there are any,
\* the system prompt is refreshed and the first request is dispatched.
processInput(t, input) ==
  /\ mayStart(t)
  /\ started < MaxTurns
  /\ LET id == started + 1
         pushed == Append(state.messages, Message("user", Str(<<input>>)))
         tools == getFunctionDefinitions(registry)
         thinking == [Event(id, "thinking") EXCEPT
                        !.text = <<"Agent has access to ", ToString(Len(tools)), " tools">>,
                        !.system = pushed[1].content]
         msgs == updateSystemPromptWithTools(pushed, registry, config)
     IN /\ state' = [state EXCEPT !.messages = msgs]
        /\ emitted' = IF Len(tools) > 0 THEN emit(emitted, thinking) ELSE emitted
        /\ requests' = Append(requests, Request(id, msgs, Len(tools) > 0, tools))
        /\ turn' = [turn EXCEPT ![t] = [IdleTurn EXCEPT !.pc = "AwaitingModel", !.id = id,
                                                        !.input = input, !.tools = tools]]
        /\ started' = id
  /\ last' = [op |-> "processInput", slot |-> t, ok |-> TRUE]
  /\ UNCHANGED <<manager, direct, eventListeners>>
  /\ UNCHANGED <<registry, config, clock, executions, resets, registers>>

\* processInput resumed with the first response: the assistant message is
\* appended and the tool calls extracted; without calls the turn returns,
\* with calls thinking is emitted and the loop is entered.
modelResponds(t, assistantMessage) ==
  /\ turn[t].pc = "AwaitingModel"
  /\ LET tr == turn[t]
         msgs == Append(state.messages, assistantMessage)
         calls == extractToolCalls(assistantMessage, clock)
         thinking == [Event(tr.id, "thinking") EXCEPT
                        !.text = <<"Agent is executing ", ToString(Len(calls)), " tools...">>]
     IN IF Len(calls) > 0 THEN
          continueLoop(t, [tr EXCEPT !.toolCalls = calls, !.i = 1], msgs,
                       emit(emitted, thinking))
        ELSE
          /\ state' = [state EXCEPT !.messages = msgs]
          /\ turn' = [turn EXCEPT ![t] =
               [tr EXCEPT !.pc = "Idle",
                          !.outcome = Outcome("resolved", ResponseText(assistantMessage.content),
                                              <<>>, NoFailure)]]
          /\ UNCHANGED <<emitted, requests, executions>>
  /\ last' = [op |-> "modelResponds", slot |-> t, ok |-> TRUE]
  /\ UNCHANGED <<manager, direct, eventListeners>>
  /\ UNCHANGED <<registry, config, clock, started, resets, registers>>

\* Mutant: the failed turn's last append is rolled back.
modelFailsRollback(t) ==
  /\ turn[t].pc \in {"AwaitingModel", "AwaitingFinalModel"}
  /\ emitted' = emit(emitted, [Event(turn[t].id, "error") EXCEPT !.error = UpstreamError])
  /\ state' = [state EXCEPT !.messages = SubSeq(@, 1, Len(@) - 1)]
  /\ turn' = [turn EXCEPT ![t] =
       [@ EXCEPT !.pc = "Idle", !.outcome = Outcome("rejected", <<>>, <<>>, UpstreamError)]]
  /\ last' = [op |-> "modelFails", slot |-> t, ok |-> FALSE]
  /\ UNCHANGED <<manager, direct, eventListeners>>
  /\ UNCHANGED <<registry, config, clock, requests, executions, started, resets, registers>>

\* A createChatCompletion promise rejects (first or final request): the
\* catch of processInput emits error and rethrows.
modelFails(t) ==
  /\ turn[t].pc \in {"AwaitingModel", "AwaitingFinalModel"}
  /\ emitted' = emit(emitted, [Event(turn[t].id, "error") EXCEPT !.error = UpstreamError])
  /\ turn' = [turn EXCEPT ![t] =
       [@ EXCEPT !.pc = "Idle", !.outcome = Outcome("rejected", <<>>, <<>>, UpstreamError)]]
  /\ last' = [op |-> "modelFails", slot |-> t, ok |-> FALSE]
  /\ UNCHANGED <<manager, direct, eventListeners>>
  /\ UNCHANGED <<registry, config, state, clock, requests, executions, started, resets,
                 registers>>

\* Mutant: a validation failure is also announced as an error event.
validationRejectsEmitting(t) ==
  /\ turn[t].pc = "ExecutingTool"
  /\ turn[t].pending = "invalid"
  /\ LET tr == turn[t]
         call == tr.toolCalls[tr.i]
     IN /\ state' = [state EXCEPT !.messages = Append(@, ErrorMessage(tr.error.message, call))]
        /\ emitted' = emit(emitted, [Event(tr.id, "error") EXCEPT !.error = tr.error])
        /\ turn' = [turn EXCEPT ![t] = [tr EXCEPT !.pc = "ToolDone", !.pending = "none"]]
  /\ last' = [op |-> "validationRejects", slot |-> t, ok |-> FALSE]
  /\ UNCHANGED <<manager, direct, eventListeners>>
  /\ UNCHANGED <<registry, config, clock, requests, executions, started, resets, registers>>

\* executeTool's promise was rejected by the schema: processToolCall's catch
\* appends the error message and the method returns.
validationRejects(t) ==
  /\ turn[t].pc = "ExecutingTool"
  /\ turn[t].pending = "invalid"
  /\ LET tr == turn[t]
         call == tr.toolCalls[tr.i]
     IN /\ state' = [state EXCEPT !.messages = Append(@, ErrorMessage(tr.error.message, call))]
        /\ turn' = [turn EXCEPT ![t] = [tr EXCEPT !.pc = "ToolDone", !.pending = "none"]]
  /\ last' = [op |-> "validationRejects", slot |-> t, ok |-> FALSE]
  /\ UNCHANGED <<manager, direct, eventListeners>>
  /\ UNCHANGED <<registry, config, clock, emitted, requests, executions, started, resets,
                 registers>>

\* The tool's execute resolves with result: tool_end is emitted, the tool
\* message and the toolCalls record are appended, the method returns.
toolReturns(t, result) ==
  /\ turn[t].pc = "ExecutingTool"
  /\ turn[t].pending = "running"
  /\ result \in ResultsOf(turn[t].toolCalls[turn[t].i].name)
  /\ LET tr == turn[t]
         call == tr.toolCalls[tr.i]
         done == [Event(tr.id, "tool_end") EXCEPT !.tool = call.name, !.value = result]
     IN /\ executions' = Append(executions, Execution(tr.id, tr.i, call, "settled"))
        /\ emitted' = emit(emitted, done)
        /\ state' = [messages |-> Append(state.messages, ResultMessage(result, call)),
                     toolCalls |-> Append(state.toolCalls, ToolCallRecord(call, tr.args, result))]
        /\ turn' = [turn EXCEPT ![t] = [tr EXCEPT !.pc = "ToolDone", !.pending = "none"]]
  /\ last' = [op |-> "toolReturns", slot |-> t, ok |-> TRUE]
  /\ UNCHANGED <<manager, direct, eventListeners>>
  /\ UNCHANGED <<registry, config, clock, requests, started, resets, registers>>

\* Mutant: the failed invocation is recorded on toolCalls with the error
\* text as its response.
toolThrowsRecording(t, message) ==
  /\ turn[t].pc = "ExecutingTool"
  /\ turn[t].pending = "running"
  /\ LET tr == turn[t]
         call == tr.toolCalls[tr.i]
     IN /\ executions' = Append(executions, Execution(tr.id, tr.i, call, "settled"))
        /\ state' = [messages |-> Append(state.messages, ErrorMessage(message, call)),
                     toolCalls |-> Append(state.toolCalls,
                                          ToolCallRecord(call, tr.args, Str(<<"Error: ">> \o message)))]
        /\ turn' = [turn EXCEPT ![t] = [tr EXCEPT !.pc = "ToolDone", !.pending = "none",
                                                  !.error = Failure("Error", message)]]
  /\ last' = [op |-> "toolThrows", slot |-> t, ok |-> FALSE]
  /\ UNCHANGED <<manager, direct, eventListeners>>
  /\ UNCHANGED <<registry, config, clock, emitted, requests, started, resets, registers>>

\* Mutant: a call whose execute threw is tried once more.
toolThrowsRetrying(t, message) ==
  /\ turn[t].pc = "ExecutingTool"
  /\ turn[t].pending = "running"
  /\ LET tr == turn[t]
         call == tr.toolCalls[tr.i]
         settled == Append(executions, Execution(tr.id, tr.i, call, "settled"))
     IN IF tr.error = NoFailure THEN
          /\ executions' = Append(settled, Execution(tr.id, tr.i, call, "invoke"))
          /\ turn' = [turn EXCEPT ![t] = [tr EXCEPT !.error = Failure("Error", message)]]
          /\ UNCHANGED state
        ELSE
          /\ executions' = settled
          /\ state' = [state EXCEPT !.messages = Append(@, ErrorMessage(message, call))]
          /\ turn' = [turn EXCEPT ![t] = [tr EXCEPT !.pc = "ToolDone", !.pending = "none",
                                                    !.error = Failure("Error", message)]]
  /\ last' = [op |-> "toolThrows", slot |-> t, ok |-> FALSE]
  /\ UNCHANGED <<manager, direct, eventListeners>>
  /\ UNCHANGED <<registry, config, clock, emitted, requests, started, resets, registers>>

\* The tool's execute throws an Error with the given message: executeTool
\* rethrows it unchanged and processToolCall's catch appends the error
\* message; nothing is pushed on toolCalls.
toolThrows(t, message) ==
  /\ turn[t].pc = "ExecutingTool"
  /\ turn[t].pending = "running"
  /\ LET tr == turn[t]
         call == tr.toolCalls[tr.i]
     IN /\ executions' = Append(executions, Execution(tr.id, tr.i, call, "settled"))
        /\ state' = [state EXCEPT !.messages = Append(@, ErrorMessage(message, call))]
        /\ turn' = [turn EXCEPT ![t] = [tr EXCEPT !.pc = "ToolDone", !.pending = "none",
                                                  !.error = Failure("Error", message)]]
  /\ last' = [op |-> "toolThrows", slot |-> t, ok |-> FALSE]
  /\ UNCHANGED <<manager, direct, eventListeners>>
  /\ UNCHANGED <<registry, config, clock, emitted, requests, started, resets, registers>>

\* Mutant: only the names of the tools that exist are pushed on toolsUsed.
toolDoneOnlyRegistered(t) ==
  /\ turn[t].pc = "ToolDone"
  /\ LET tr == turn[t]
         call == tr.toolCalls[tr.i]
     IN continueLoop(t, [tr EXCEPT !.toolsUsed = IF has(registry, call.name)
                                                 THEN Append(@, call.name) ELSE @,
                                   !.i = @ + 1],
                     state.messages, emitted)
  /\ last' = [op |-> "toolDone", slot |-> t, ok |-> TRUE]
  /\ UNCHANGED <<manager, direct, eventListeners>>
  /\ UNCHANGED <<registry, config, clock, started, resets, registers>>

\* The loop's await on processToolCall resumes: the call's name is pushed on
\* toolsUsed and the loop goes on with the next call or the final request.
toolDone(t) ==
  /\ turn[t].pc = "ToolDone"
  /\ LET tr == turn[t]
         call == tr.toolCalls[tr.i]
     IN continueLoop(t, [tr EXCEPT !.toolsUsed = Append(@, call.name), !.i = @ + 1],
                     state.messages, emitted)
  /\ last' = [op |-> "toolDone", slot |-> t, ok |-> TRUE]
  /\ UNCHANGED <<manager, direct, eventListeners>>
  /\ UNCHANGED <<registry, config, clock, started, resets, registers>>

\* Mutant: getFinalResponse returns without emitting response.
finalRespondsSilent(t, assistantMessage) ==
  /\ turn[t].pc = "AwaitingFinalModel"
  /\ LET tr == turn[t]
     IN /\ state' = [state EXCEPT !.messages = Append(@, assistantMessage)]
        /\ turn' = [turn EXCEPT ![t] =
             [tr EXCEPT !.pc = "Idle",
                        !.outcome = Outcome("resolved", ResponseText(assistantMessage.content),
                                            tr.toolsUsed, NoFailure)]]
  /\ last' = [op |-> "finalResponds", slot |-> t, ok |-> TRUE]
  /\ UNCHANGED <<manager, direct, eventListeners>>
  /\ UNCHANGED <<registry, config, clock, emitted, requests, executions, started, resets,
                 registers>>

\* Mutant: the tool calls of the final response are extracted and run like
\* those of the first.
finalRespondsExtracting(t, assistantMessage) ==
  /\ turn[t].pc = "AwaitingFinalModel"
  /\ LET tr == turn[t]
         msgs == Append(state.messages, assistantMessage)
         calls == extractToolCalls(assistantMessage, clock)
         ev == emit(emitted, [Event(tr.id, "response") EXCEPT !.message = assistantMessage])
     IN IF Len(calls) > 0 /\ Len(tr.toolCalls) < 2 THEN
          continueLoop(t, [tr EXCEPT !.toolCalls = @ \o calls], msgs, ev)
        ELSE
          /\ state' = [state EXCEPT !.messages = msgs]
          /\ emitted' = ev
          /\ turn' = [turn EXCEPT ![t] =
               [tr EXCEPT !.pc = "Idle",
                          !.outcome = Outcome("resolved", ResponseText(assistantMessage.content),
                                              tr.toolsUsed, NoFailure)]]
          /\ UNCHANGED <<requests, executions>>
  /\ last' = [op |-> "finalResponds", slot |-> t, ok |-> TRUE]
  /\ UNCHANGED <<manager, direct, eventListeners>>
  /\ UNCHANGED <<registry, config, clock, started, resets, registers>>

\* getFinalResponse resumed with the final response: the assistant message
\* is appended, response is emitted and the turn returns.
finalResponds(t, assistantMessage) ==
  /\ turn[t].pc = "AwaitingFinalModel"
  /\ LET tr == turn[t]
     IN /\ state' = [state EXCEPT !.messages = Append(@, assistantMessage)]
        /\ emitted' = emit(emitted, [Event(tr.id, "response") EXCEPT !.message = assistantMessage])
        /\ turn' = [turn EXCEPT ![t] =
             [tr EXCEPT !.pc = "Idle",
                        !.outcome = Outcome("resolved", ResponseText(assistantMessage.content),
                                            tr.toolsUsed, NoFailure)]]
  /\ last' = [op |-> "finalResponds", slot |-> t, ok |-> TRUE]
  /\ UNCHANGED <<manager, direct, eventListeners>>
  /\ UNCHANGED <<registry, config, clock, requests, executions, started, resets, registers>>

\* Mutant: reset rebuilds the messages and forgets to clear toolCalls.
resetKeepingToolCalls ==
  /\ resets < MaxResets
  /\ state' = [resetState(registry, config) EXCEPT !.toolCalls = state.toolCalls]
  /\ resets' = resets + 1
  /\ last' = [op |-> "reset", slot |-> 0, ok |-> TRUE]
  /\ UNCHANGED <<manager, direct, eventListeners>>
  /\ UNCHANGED <<registry, config, turn, clock, emitted, requests, executions, started,
                 registers>>

\* Mutant: reset abandons the processInput calls in progress.
resetCancelling ==
  /\ resets < MaxResets
  /\ state' = resetState(registry, config)
  /\ turn' = [t \in Slots |-> IF turn[t].pc = "Idle" THEN turn[t] ELSE IdleTurn]
  /\ resets' = resets + 1
  /\ last' = [op |-> "reset", slot |-> 0, ok |-> TRUE]
  /\ UNCHANGED <<manager, direct, eventListeners>>
  /\ UNCHANGED <<registry, config, clock, emitted, requests, executions, started,
                 registers>>

\* Agent.reset
reset ==
  /\ resets < MaxResets
  /\ state' = resetState(registry, config)
  /\ resets' = resets + 1
  /\ last' = [op |-> "reset", slot |-> 0, ok |-> TRUE]
  /\ UNCHANGED <<manager, direct, eventListeners>>
  /\ UNCHANGED <<registry, config, turn, clock, emitted, requests, executions, started,
                 registers>>

\* Mutant: registerTools only delegates to the registry.
registerToolsNoRefresh(tools) ==
  /\ registers < MaxRegisters
  /\ LET r == registryRegisterTools(registry, tools)
     IN /\ registry' = r.reg
        /\ last' = [op |-> "registerTools", slot |-> 0, ok |-> r.ok]
  /\ registers' = registers + 1
  /\ UNCHANGED <<manager, direct, eventListeners>>
  /\ UNCHANGED <<config, state, turn, clock, emitted, requests, executions, started, resets>>

\* Agent.registerTools: the registry's registerTools, then the refresh of
\* the system prompt, which a throw of the former skips.
registerTools(tools) ==
  /\ registers < MaxRegisters
  /\ LET r == registryRegisterTools(registry, tools)
     IN /\ registry' = r.reg
        /\ state' = IF r.ok
                    THEN [state EXCEPT !.messages = updateSystemPromptWithTools(@, r.reg, config)]
                    ELSE state
        /\ last' = [op |-> "registerTools", slot |-> 0, ok |-> r.ok]
  /\ registers' = registers + 1
  /\ UNCHANGED <<manager, direct, eventListeners>>
  /\ UNCHANGED <<config, turn, clock, emitted, requests, executions, started, resets>>

\* The number of subscriptions made so far.
Subscribed ==
  Len(eventListeners["thinking"]) + Len(eventListeners["tool_start"])
  + Len(eventListeners["tool_end"]) + Len(eventListeners["response"])
  + Len(eventListeners["error"])

\* Mutant: a subscription replaces the listeners of the event.
onReplacing(event, listener) ==
  /\ Subscribed < MaxListeners
  /\ eventListeners' = [eventListeners EXCEPT ![event] = <<listener>>]
  /\ UNCHANGED <<manager, direct>>
  /\ UNCHANGED <<registry, config, state, turn, clock, emitted, requests, executions,
                 started, resets, registers, last>>

\* Agent.on: the listener is pushed on the list of the event.
on(event, listener) ==
  /\ Subscribed < MaxListeners
  /\ eventListeners' = [eventListeners EXCEPT ![event] = Append(@, listener)]
  /\ UNCHANGED <<manager, direct>>
  /\ UNCHANGED <<registry, config, state, turn, clock, emitted, requests, executions,
                 started, resets, registers, last>>

\* Time passes.  Date.now() is read only when a first response is handled,
\* so only the time that passes while one is awaited is modelled.
tick ==
  /\ clock < MaxNow
  /\ \E t \in Slots : turn[t].pc = "AwaitingModel"
  /\ clock' = clock + 1
  /\ UNCHANGED <<manager, direct, eventListeners>>
  /\ UNCHANGED <<registry, config, state, turn, emitted, requests, executions, started,
                 resets, registers, last>>

\* No processInput call is in progress.
AllIdle == \A t \in Slots : turn[t].pc = "Idle"

\* Sequential use: the caller makes each call (processInput, reset,
\* registerTools) when no processInput is in progress.
Next ==
  \/ \E input \in Inputs : AllIdle /\ processInput(1, input)
  \/ \E t \in Slots, m \in Responses : modelResponds(t, m)
  \/ \E t \in Slots : modelFails(t)
  \/ \E t \in Slots : validationRejects(t)
  \/ \E t \in Slots, r \in Results : toolReturns(t, r)
  \/ \E t \in Slots, m \in ToolErrors : toolThrows(t, m)
  \/ \E t \in Slots : toolDone(t)
  \/ \E t \in Slots, m \in FinalResponses : finalResponds(t, m)
  \/ AllIdle /\ reset
  \/ \E tools \in Batches : AllIdle /\ registerTools(tools)
  \/ tick

Spec == Init /\ [][Next]_vars

\* Overlapping use: a second processInput may be called while the first is
\* suspended, and reset may be called at any time.  A new call takes the
\* lowest free slot (the slots only name the calls in progress).
OverlapResponses ==
  { Assistant(Str(<<"This is a mock response">>)),
    WithToolCalls(Assistant(Null), <<ToolCall("call-a", "calculator", ValidCalculatorArgs)>>),
    WithToolCalls(Assistant(Null), <<ToolCall("call-a", "calculator", EmptyArgs)>>),
    WithFunctionCall(Assistant(Null), "calculator", Obj(<<"expression", "2 + 2">>)) }

OverlapFinalResponses == {Assistant(Str(<<"This is a mock response">>))}

\* The agent of the test suite: one registered tool, a configured prompt.
InitOverlap ==
  /\ Init
  /\ registry = <<CalculatorTool>>
  /\ config = [systemPrompt |-> Str(<<"You are a test assistant">>)]

LowestIdle(t) == \A s \in Slots : s < t => turn[s].pc # "Idle"

NextOverlap ==
  \/ \E t \in Slots, input \in Inputs : LowestIdle(t) /\ processInput(t, input)
  \/ \E t \in Slots, m \in OverlapResponses : modelResponds(t, m)
  \/ \E t \in Slots : modelFails(t)
  \/ \E t \in Slots : validationRejects(t)
  \/ \E t \in Slots, r \in Results : toolReturns(t, r)
  \/ \E t \in Slots, m \in ToolErrors : toolThrows(t, m)
  \/ \E t \in Slots : toolDone(t)
  \/ \E t \in Slots, m \in OverlapFinalResponses : finalResponds(t, m)
  \/ reset
  \/ tick

SpecOverlap == InitOverlap /\ [][NextOverlap]_vars

\* One turn over every shape of first response: the three places a call can
\* be written in (the tool_calls list, the legacy function_call field, a
\* fenced json block in the content), each absent or present, in every
\* combination.  arguments is a JSON string or, from a provider that does
\* not stringify it, an object.
StructuredLists ==
  { <<ToolCall("call-a", "calculator", ValidCalculatorArgs)>>,
    <<ToolCall("call-a", "calculator", Obj(<<"expression", "2 + 2">>)),
      ToolCall("call-b", "calculator", EmptyArgs)>> }

ToolCallsFields ==
  {[has |-> FALSE, calls |-> <<>>], [has |-> TRUE, calls |-> <<>>]}
  \cup {[has |-> TRUE, calls |-> c] : c \in StructuredLists}

FunctionCallFields ==
  { NoCall,
    ToolCall("", "get_weather", ValidWeatherArgs),
    ToolCall("", "calculator", Obj(<<"expression", "1 + 1">>)) }

ProseContent == Str(<<"This is a mock response">>)

FencedObjectArguments ==
  Str(<<"I need to use a tool\n">> \o FencedCall("calculator", Obj(<<"expression", "3 * 3">>)))

FencedStringArguments ==
  Str(<<"I need to use a tool\n">> \o FencedCall("calculator", Str(<<"3 * 3">>)))

UnparsableFence == Str(<<"Let me try\n", FenceOpen, "{", "oops", "}", FenceClose>>)

FenceWithoutArguments ==
  Str(<<FenceOpen, "{", "\"name\":", "\"", "calculator", "\"", "}", FenceClose>>)

FenceWithoutName ==
  Str(<<FenceOpen, "{", "\"arguments\":">> \o ValidCalculatorArgs.v \o <<"}", FenceClose>>)

UnclosedFence == Str(<<FenceOpen, "{", "\"name\":", "\"", "calculator", "\"", "}">>)

Contents ==
  { Null, ProseContent, FencedObjectArguments, FencedStringArguments, UnparsableFence,
    FenceWithoutArguments, FenceWithoutName, UnclosedFence }

ExtractResponses ==
  { [Assistant(c) EXCEPT !.has_tool_calls = tc.has, !.tool_calls = tc.calls,
                         !.has_function_call = (fc # NoCall), !.function_call = fc] :
      tc \in ToolCallsFields, fc \in FunctionCallFields, c \in Contents }

NextExtract ==
  \/ \E input \in Inputs : started = 0 /\ processInput(1, input)
  \/ \E m \in ExtractResponses : modelResponds(1, m)
  \/ modelFails(1)
  \/ validationRejects(1)
  \/ \E r \in Results : toolReturns(1, r)
  \/ \E m \in ToolErrors : toolThrows(1, m)
  \/ toolDone(1)
  \/ \E m \in OverlapFinalResponses : finalResponds(1, m)
  \/ tick

SpecExtract == InitOverlap /\ [][NextExtract]_vars

\* Progress: the chat-completion collaborator settles every request (with a
\* response or a failure), every invoked tool settles (with a result or a
\* failure), and the runtime resumes a function whose awaited promise has
\* settled.
CollaboratorSettles(t) ==
  \/ \E m \in ExtractResponses : modelResponds(t, m)
  \/ \E m \in OverlapFinalResponses : finalResponds(t, m)
  \/ modelFails(t)

ToolSettles(t) ==
  \/ \E r \in Results : toolReturns(t, r)
  \/ \E m \in ToolErrors : toolThrows(t, m)

Resumes(t) == validationRejects(t) \/ toolDone(t)

Fairness ==
  /\ WF_vars(CollaboratorSettles(1))
  /\ WF_vars(ToolSettles(1))
  /\ WF_vars(Resumes(1))

SpecLive == InitOverlap /\ [][NextExtract]_vars /\ Fairness

\* Events: the agent of the test suite handles one turn while the caller
\* subscribes listeners, before or during the turn.
NextEvents ==
  \/ \E event \in AgentEvents, listener \in Listeners : on(event, listener)
  \/ \E input \in Inputs : started = 0 /\ processInput(1, input)
  \/ \E m \in OverlapResponses : modelResponds(1, m)
  \/ modelFails(1)
  \/ validationRejects(1)
  \/ \E r \in Results : toolReturns(1, r)
  \/ \E m \in ToolErrors : toolThrows(1, m)
  \/ toolDone(1)
  \/ \E m \in OverlapFinalResponses : finalResponds(1, m)
  \/ tick

SpecEvents == InitOverlap /\ [][NextEvents]_vars

\* Function definitions: an agent constructed with one tool whose schema is
\* any shape of up to MaxFields fields, each of any kind (the five kinds
\* convertZodSchemaToJsonSchema handles, a ZodOptional wrapper, or another
\* Zod type), handles one turn; the definitions go out with its request.
MaxFields == 2

FieldKinds == SupportedKinds \cup {"optional", "other"}

FieldAt(i, kind) ==
  Field("param" \o ToString(i), kind, <<"Parameter ", ToString(i)>>,
        IF kind = "enum" THEN <<"option1", "option2">> ELSE <<>>)

Schemas ==
  UNION {{[i \in 1..n |-> FieldAt(i, kinds[i])] : kinds \in [1..n -> FieldKinds]} :
           n \in 0..MaxFields}

TestTool(schema) ==
  [name |-> "test_tool", description |-> "A test tool for unit testing", schema |-> schema]

InitSchema ==
  /\ \E schema \in Schemas : registry = <<TestTool(schema)>>
  /\ config = [systemPrompt |-> Undefined]
  /\ state = resetState(registry, config)
  /\ turn = [t \in Slots |-> IdleTurn]
  /\ clock = 0
  /\ emitted = <<>>
  /\ requests = <<>>
  /\ executions = <<>>
  /\ started = 0
  /\ resets = 0
  /\ registers = 0
  /\ last = [op |-> "constructor", slot |-> 0, ok |-> TRUE]
  /\ manager = <<>>
  /\ direct = NoDirect
  /\ eventListeners = NoListeners

NextSchema ==
  \/ \E input \in Inputs : started = 0 /\ processInput(1, input)
  \/ \E m \in OverlapFinalResponses : modelResponds(1, m)
  \/ modelFails(1)

SpecSchema == InitSchema /\ [][NextSchema]_vars

\* The registries used on their own: a caller holds a ToolRegistry and a
\* ToolManager, both empty at first, and calls registerTool, registerTools
\* and executeTool on them, one call at a time, up to MaxCalls calls.
MaxCalls == 3

\* A second tool instance named as the calculator.
ReplacementTool ==
  [name |-> "calculator",
   description |-> "A replacement calculator",
   schema |-> <<Field("expression", "string", <<"Math expression to evaluate">>, <<>>)>>]

ToolInstances == {CalculatorTool, WeatherTool, ReplacementTool}

ToolBatches == {<<WeatherTool, CalculatorTool>>, <<CalculatorTool, ReplacementTool, WeatherTool>>}

ToolNames == {"calculator", "get_weather", "non_existent_tool"}

DirectArgs ==
  { Obj(<<"expression", "2 + 2">>), Obj(<<>>), Obj(<<"expression", "2 + 2", "extra", "1">>) }

agentVars ==
  <<config, state, turn, clock, emitted, requests, executions, started, resets,
    registers, last, eventListeners>>

MayCall == direct.status # "pending" /\ direct.calls < MaxCalls

DirectCall(target, op) ==
  [NoDirect EXCEPT !.target = target, !.op = op, !.calls = direct.calls + 1]

NotFound(name) == Failure("Error", <<"Tool \"", name, "\" not found">>)

\* registry.registerTool(tool)
ToolRegistry_registerTool(tool) ==
  /\ MayCall
  /\ LET r == registerTool(registry, tool)
     IN /\ registry' = r.reg
        /\ direct' = [DirectCall("ToolRegistry", "registerTool") EXCEPT
                        !.name = tool.name, !.tools = <<tool>>,
                        !.status = IF r.ok THEN "returned" ELSE "threw",
                        !.error = IF r.ok THEN NoFailure ELSE Failure("Error", r.message)]
  /\ UNCHANGED manager
  /\ UNCHANGED agentVars

\* registry.registerTools(tools)
ToolRegistry_registerTools(tools) ==
  /\ MayCall
  /\ LET r == registryRegisterTools(registry, tools)
     IN /\ registry' = r.reg
        /\ direct' = [DirectCall("ToolRegistry", "registerTools") EXCEPT
                        !.tools = tools,
                        !.status = IF r.ok THEN "returned" ELSE "threw",
                        !.error = IF r.ok THEN NoFailure ELSE Failure("Error", r.message)]
  /\ UNCHANGED manager
  /\ UNCHANGED agentVars

\* Mutant: executeTool hands the arguments to the tool as received.
ToolRegistry_executeToolUnvalidated(name, args) ==
  /\ MayCall
  /\ LET call == [DirectCall("ToolRegistry", "executeTool") EXCEPT !.name = name, !.args = args]
     IN direct' =
          IF ~has(registry, name)
          THEN [call EXCEPT !.status = "threw", !.error = NotFound(name)]
          ELSE [call EXCEPT !.status = "pending", !.invoked = TRUE, !.passed = args]
  /\ UNCHANGED <<registry, manager>>
  /\ UNCHANGED agentVars

\* registry.executeTool(name, args) up to its await: an unknown name
\* throws; the schema's parse throws on invalid arguments, and the catch
\* block logs and rethrows it; otherwise the tool's execute is invoked
\* with the validated arguments.
ToolRegistry_executeTool(name, args) ==
  /\ MayCall
  /\ LET call == [DirectCall("ToolRegistry", "executeTool") EXCEPT !.name = name, !.args = args]
     IN direct' =
          IF ~has(registry, name)
          THEN [call EXCEPT !.status = "threw", !.error = NotFound(name)]
          ELSE LET validatedArgs == SchemaParse(getTool(registry, name), args)
               IN IF validatedArgs.ok
                  THEN [call EXCEPT !.status = "pending", !.invoked = TRUE,
                                    !.passed = validatedArgs.value]
                  ELSE [call EXCEPT !.status = "threw",
                                    !.error = Failure("ZodError", validatedArgs.message)]
  /\ UNCHANGED <<registry, manager>>
  /\ UNCHANGED agentVars

\* The tool's execute resolved: executeTool returns its result.
ToolRegistry_executeReturns(result) ==
  /\ direct.status = "pending" /\ direct.target = "ToolRegistry"
  /\ result \in ResultsOf(direct.name)
  /\ direct' = [direct EXCEPT !.status = "returned", !.value = result]
  /\ UNCHANGED <<registry, manager>>
  /\ UNCHANGED agentVars

\* Mutant: the catch block wraps the failure with the tool's name.
ToolRegistry_executeThrowsWrapping(message) ==
  /\ direct.status = "pending" /\ direct.target = "ToolRegistry"
  /\ direct' = [direct EXCEPT
                  !.status = "threw", !.thrown = message,
                  !.error = Failure("Error", <<"Error executing tool \"", direct.name, "\": ">>
                                             \o message)]
  /\ UNCHANGED <<registry, manager>>
  /\ UNCHANGED agentVars

\* The tool's execute rejected: the catch block logs the error and throws
\* the same error.
ToolRegistry_executeThrows(message) ==
  /\ direct.status = "pending" /\ direct.target = "ToolRegistry"
  /\ direct' = [direct EXCEPT !.status = "threw", !.thrown = message,
                              !.error = Failure("Error", message)]
  /\ UNCHANGED <<registry, manager>>
  /\ UNCHANGED agentVars

\* manager.registerTool(tool)
ToolManager_registerTool(tool) ==
  /\ MayCall
  /\ LET r == managerRegisterTool(manager, tool)
     IN /\ manager' = r.tools
        /\ direct' = [DirectCall("ToolManager", "registerTool") EXCEPT
                        !.name = tool.name, !.tools = <<tool>>,
                        !.status = "returned", !.warned = r.warned]
  /\ UNCHANGED registry
  /\ UNCHANGED agentVars

\* manager.registerTools(tools)
ToolManager_registerTools(tools) ==
  /\ MayCall
  /\ LET r == managerRegisterTools(manager, tools)
     IN /\ manager' = r.tools
        /\ direct' = [DirectCall("ToolManager", "registerTools") EXCEPT
                        !.tools = tools, !.status = "returned", !.warned = r.warned]
  /\ UNCHANGED registry
  /\ UNCHANGED agentVars

\* manager.executeTool(name, args) up to its await: an unknown name throws;
\* otherwise the tool's execute is invoked with the arguments as received.
ToolManager_executeTool(name, args) ==
  /\ MayCall
  /\ LET call == [DirectCall("ToolManager", "executeTool") EXCEPT !.name = name, !.args = args]
     IN direct' =
          IF ~has(manager, name)
          THEN [call EXCEPT !.status = "threw", !.error = NotFound(name)]
          ELSE [call EXCEPT !.status = "pending", !.invoked = TRUE, !.passed = args]
  /\ UNCHANGED <<registry, manager>>
  /\ UNCHANGED agentVars

ToolManager_executeReturns(result) ==
  /\ direct.status = "pending" /\ direct.target = "ToolManager"
  /\ result \in ResultsOf(direct.name)
  /\ direct' = [direct EXCEPT !.status = "returned", !.value = result]
  /\ UNCHANGED <<registry, manager>>
  /\ UNCHANGED agentVars

\* The tool's execute rejected: the catch block throws a new Error that
\* names the tool before the message.
ToolManager_executeThrows(message) ==
  /\ direct.status = "pending" /\ direct.target = "ToolManager"
  /\ direct' = [direct EXCEPT
                  !.status = "threw", !.thrown = message,
                  !.error = Failure("Error", <<"Error executing tool \"", direct.name, "\": ">>
                                             \o message)]
  /\ UNCHANGED <<registry, manager>>
  /\ UNCHANGED agentVars

InitTools ==
  /\ Init
  /\ registry = <<>>
  /\ config = [systemPrompt |-> Undefined]

NextTools ==
  \/ \E tool \in ToolInstances : ToolRegistry_registerTool(tool)
  \/ \E tools \in ToolBatches : ToolRegistry_registerTools(tools)
  \/ \E name \in ToolNames, args \in DirectArgs : ToolRegistry_executeTool(name, args)
  \/ \E r \in Results : ToolRegistry_executeReturns(r)
  \/ \E m \in ToolErrors : ToolRegistry_executeThrows(m)
  \/ \E tool \in ToolInstances : ToolManager_registerTool(tool)
  \/ \E tools \in ToolBatches : ToolManager_registerTools(tools)
  \/ \E name \in ToolNames, args \in DirectArgs : ToolManager_executeTool(name, args)
  \/ \E r \in Results : ToolManager_executeReturns(r)
  \/ \E m \in ToolErrors : ToolManager_executeThrows(m)

SpecTools == InitTools /\ [][NextTools]_vars

\* ------------------------------------------------------- history selectors
RequestsOf(id) == SelectSeq(requests, LAMBDA r : r.turn = id)

EventsOf(id, kind) == SelectSeq(emitted, LAMBDA e : e.turn = id /\ e.event = kind)

ExecutionsOf(id) == SelectSeq(executions, LAMBDA e : e.turn = id)

\* A processInput call was made in the slot and has settled.
Settled(tr) == tr.id > 0 /\ tr.pc = "Idle"

\* The index of the latest user message (0 if there is none): in
\* sequential use the messages after it are those of the latest turn.
LastUser ==
  LET U == {i \in 1..Len(state.messages) : state.messages[i].role = "user"}
  IN IF U = {} THEN 0 ELSE CHOOSE i \in U : \A j \in U : j <= i

TurnMessages ==
  IF LastUser = 0 THEN <<>> ELSE SubSeq(state.messages, LastUser, Len(state.messages))

\* The calls of turn record tr that processToolCall has been entered for.
Entered(tr) == 1..(IF tr.i > Len(tr.toolCalls) THEN Len(tr.toolCalls) ELSE tr.i)

\* ----------------------------------------------------------------- claims
\* C1: a turn dispatches one chat-completion request when the extractor
\* returned no call for the first response and two when it returned some,
\* never a third; and a turn that has ended has returned a response or
\* failed with an error that was surfaced as an error event.
C1_RequestsPerTurn ==
  \A t \in Slots :
    LET tr == turn[t]
        n == Len(RequestsOf(tr.id))
    IN tr.id > 0 =>
         /\ n \in {1, 2}
         /\ n = 2 => Len(tr.toolCalls) > 0
         /\ Settled(tr) =>
              /\ tr.outcome.status \in {"resolved", "rejected"}
              /\ tr.outcome.status = "rejected" => Len(EventsOf(tr.id, "error")) > 0
              /\ Len(tr.toolCalls) = 0 => n = 1
              /\ Len(tr.toolCalls) > 0 => n = 2

C1_Witness ==
  \E t \in Slots :
    /\ Settled(turn[t]) /\ turn[t].outcome.status = "resolved"
    /\ Len(turn[t].toolCalls) = 2
    /\ Len(RequestsOf(turn[t].id)) = 2

\* C2: when every one of the n calls extracted from the first response ran
\* successfully, the turn's messages are user, assistant, n tool messages,
\* assistant, and the k-th tool message carries JSON.stringify of the k-th
\* call's result and the k-th call's id.
C2_ToolMessagesInOrder ==
  \A t \in Slots :
    LET tr == turn[t]
        n == Len(tr.toolCalls)
        ends == EventsOf(tr.id, "tool_end")
        msgs == state.messages
        L == Len(msgs)
    IN (last.op = "finalResponds" /\ last.slot = t /\ n > 0 /\ Len(ends) = n) =>
         /\ L >= n + 3
         /\ msgs[L].role = "assistant"
         /\ msgs[L - n - 1].role = "assistant"
         /\ msgs[L - n - 2] = Message("user", Str(<<tr.input>>))
         /\ \A k \in 1..n :
              /\ ends[k].tool = tr.toolCalls[k].name
              /\ msgs[L - n - 1 + k] =
                   [Message("tool", JSONStringify(ends[k].value))
                      EXCEPT !.tool_call_id = tr.toolCalls[k].id]

C2_Witness ==
  \E t \in Slots :
    /\ last.op = "finalResponds" /\ last.slot = t
    /\ Len(turn[t].toolCalls) = 2
    /\ Len(EventsOf(turn[t].id, "tool_end")) = 2

\* C3: a throwing execute (message m) or a schema failure does not fail the
\* turn: the step appends one tool message "Error: " + m with the call's id
\* and the loop goes on; the final request is still dispatched, and a turn
\* is only ever rejected with the collaborator's failure.
C3_ToolFailureAbsorbed ==
  \A t \in Slots :
    LET tr == turn[t]
        msgs == state.messages
    IN /\ (last.slot = t /\ last.op \in {"toolThrows", "validationRejects"}) =>
            /\ tr.pc = "ToolDone"
            /\ tr.outcome.status = "none"
            /\ EventsOf(tr.id, "error") = <<>>
            /\ msgs[Len(msgs)].role = "tool"
            /\ msgs[Len(msgs)].content = Str(<<"Error: ">> \o tr.error.message)
            /\ msgs[Len(msgs)].tool_call_id = tr.toolCalls[tr.i].id
            /\ Cardinality({k \in 1..Len(TurnMessages) :
                              TurnMessages[k].tool_call_id = tr.toolCalls[tr.i].id}) = 1
       /\ (Settled(tr) /\ tr.outcome.status = "rejected") => tr.outcome.error = UpstreamError
       /\ (tr.id > 0 /\ tr.error # NoFailure /\ (tr.pc = "AwaitingFinalModel" \/ Settled(tr))) =>
            /\ Len(RequestsOf(tr.id)) = 2
            /\ Len(tr.toolsUsed) = Len(tr.toolCalls)

C3_Witness ==
  \E t \in Slots :
    /\ Settled(turn[t]) /\ turn[t].outcome.status = "resolved"
    /\ Len(turn[t].toolCalls) = 2
    /\ \E k \in 1..Len(TurnMessages) :
         /\ TurnMessages[k].role = "tool"
         /\ TurnMessages[k].content = Str(<<"Error: ", "boom">>)
         /\ TurnMessages[k].tool_call_id = "call-a"
    /\ \E k \in 1..Len(TurnMessages) :
         TurnMessages[k].role = "tool" /\ TurnMessages[k].tool_call_id = "call-b"

\* The number of tool-role messages of a message history.
ToolMessageCount(msgs) == Cardinality({k \in 1..Len(msgs) : msgs[k].role = "tool"})

\* The number of calls among the first n of a turn that name a registered tool.
RegisteredAmong(tr, n) == Cardinality({j \in 1..n : has(registry, tr.toolCalls[j].name)})

\* C4: a call that names a tool missing from the registry is skipped: the
\* turn does not fail, no tool message, toolCalls record, tool_start or
\* tool_end and no execution exists for it, and the loop goes on to the
\* remaining calls and the final request.
C4_UnknownToolSkipped ==
  \A t \in Slots :
    LET tr == turn[t]
    IN tr.id > 0 =>
         /\ \A k \in Entered(tr) :
              ~has(registry, tr.toolCalls[k].name) =>
                /\ \A j \in 1..Len(TurnMessages) :
                     TurnMessages[j].tool_call_id # tr.toolCalls[k].id
                /\ \A j \in 1..Len(state.toolCalls) :
                     state.toolCalls[j].name # tr.toolCalls[k].name
                /\ \A j \in 1..Len(emitted) :
                     ~(emitted[j].turn = tr.id /\ emitted[j].tool = tr.toolCalls[k].name)
                /\ \A j \in 1..Len(executions) :
                     ~(executions[j].turn = tr.id /\ executions[j].index = k)
                /\ k = tr.i => tr.pc = "ToolDone"
         /\ (Settled(tr) /\ tr.outcome.status = "rejected") => tr.outcome.error = UpstreamError
         /\ (Len(tr.toolCalls) > 0 /\ (tr.pc = "AwaitingFinalModel" \/ Settled(tr))) =>
              /\ tr.i = Len(tr.toolCalls) + 1
              /\ Len(RequestsOf(tr.id)) = 2

C4_Witness ==
  \E t \in Slots :
    /\ Settled(turn[t]) /\ turn[t].outcome.status = "resolved"
    /\ Len(turn[t].toolCalls) = 2
    /\ ~has(registry, turn[t].toolCalls[1].name)
    /\ has(registry, turn[t].toolCalls[2].name)
    /\ ToolMessageCount(TurnMessages) = 1

\* C5: when a chat-completion request fails, the turn emits exactly one
\* error event, carrying the failure it is rejected with, and nothing is
\* rolled back: the message history is still the one the failed request
\* carried, and every result of the turn is still on toolCalls.
C5_UpstreamFailureSurfaced ==
  \A t \in Slots :
    LET tr == turn[t]
        errs == EventsOf(tr.id, "error")
        reqs == RequestsOf(tr.id)
        ends == EventsOf(tr.id, "tool_end")
        n == Len(state.toolCalls)
    IN /\ (tr.id > 0 /\ tr.outcome.status = "rejected") =>
            /\ Len(errs) = 1
            /\ errs[1].error = tr.outcome.error
            /\ tr.outcome.error = UpstreamError
       /\ (last.op = "modelFails" /\ last.slot = t) =>
            /\ tr.outcome.status = "rejected"
            /\ state.messages = reqs[Len(reqs)].messages
            /\ state.messages[LastUser] = Message("user", Str(<<tr.input>>))
            /\ n >= Len(ends)
            /\ \A k \in 1..Len(ends) :
                 /\ state.toolCalls[n - Len(ends) + k].response = ends[k].value
                 /\ state.toolCalls[n - Len(ends) + k].name = ends[k].tool

C5_Witness ==
  \E t \in Slots :
    /\ last.op = "modelFails" /\ last.slot = t
    /\ Len(RequestsOf(turn[t].id)) = 2
    /\ Len(EventsOf(turn[t].id, "tool_end")) = 1
    /\ ToolMessageCount(TurnMessages) = 2

\* C6: the message log is never empty and starts with the system message;
\* every step other than reset keeps the messages at index >= 1 as they are
\* and in place (it may append, and may replace the content of messages[0]).
C6_SystemFirstAppendOnly ==
  /\ [](Len(state.messages) >= 1 /\ state.messages[1].role = "system")
  /\ [][resets' = resets =>
          /\ Len(state'.messages) >= Len(state.messages)
          /\ state'.messages[1].role = state.messages[1].role
          /\ \A i \in 2..Len(state.messages) : state'.messages[i] = state.messages[i]]_vars

C6_Witness ==
  /\ last.op = "registerTools" /\ last.ok
  /\ Len(state.messages) >= 3
  /\ state.messages[1].content # config.systemPrompt

\* C7: a reset step leaves one message, of role system, an empty toolCalls
\* history, and the registry as it was.
C7_ResetPostcondition ==
  [][resets' # resets =>
       /\ Len(state'.messages) = 1
       /\ state'.messages[1].role = "system"
       /\ state'.toolCalls = <<>>
       /\ registry' = registry]_vars

C7_Witness ==
  /\ last.op = "reset"
  /\ started = 2
  /\ \E j \in 1..Len(emitted) : emitted[j].event = "tool_end"
  /\ \E j \in 1..Len(emitted) : emitted[j].event = "error"
  /\ Len(state.messages) = 1 /\ state.toolCalls = <<>>

\* C8: within a turn the tools run one at a time, in call order: an execute
\* is invoked only when every earlier invocation has settled, and when it is
\* invoked every earlier call of a registered tool has its tool message; the
\* final request carries the tool message of every such call.
C8_SequentialToolExecution ==
  \A t \in Slots :
    LET tr == turn[t]
        ex == ExecutionsOf(tr.id)
        reqs == RequestsOf(tr.id)
    IN tr.id > 0 =>
         /\ \A p \in 1..Len(ex) :
              /\ p % 2 = 1 => ex[p].phase = "invoke"
              /\ p % 2 = 0 => ex[p].phase = "settled" /\ ex[p].index = ex[p - 1].index
              /\ (p % 2 = 1 /\ p > 2) => ex[p].index > ex[p - 2].index
         /\ (tr.pc = "ExecutingTool" /\ tr.pending = "running") =>
              /\ Len(ex) % 2 = 1
              /\ ex[Len(ex)].index = tr.i
              /\ ToolMessageCount(state.messages) - ToolMessageCount(reqs[1].messages)
                   = RegisteredAmong(tr, tr.i - 1)
         /\ Len(reqs) = 2 => Len(ex) % 2 = 0
         /\ tr.pc = "AwaitingFinalModel" =>
              /\ Len(reqs) = 2
              /\ ToolMessageCount(reqs[2].messages) - ToolMessageCount(reqs[1].messages)
                   = RegisteredAmong(tr, Len(tr.toolCalls))

C8_Witness ==
  \E t \in Slots :
    /\ turn[t].pc = "AwaitingFinalModel"
    /\ Len(ExecutionsOf(turn[t].id)) = 4

\* C9: processInput is not serialized: while one call is suspended, another
\* one can be entered (there is no lock to wait for), so that the turns'
\* messages interleave and a request carries the other turn's messages.
C9_NotSerialized ==
  (started < MaxTurns /\ \E s \in Slots : turn[s].pc = "Idle") =>
    ENABLED (\E t \in Slots, input \in Inputs : LowestIdle(t) /\ processInput(t, input))

C9_Witness ==
  /\ turn[1].pc = "AwaitingModel" /\ turn[2].pc = "AwaitingModel"
  /\ \E i \in 1..(Len(state.messages) - 1) :
       state.messages[i].role = "user" /\ state.messages[i + 1].role = "user"
  /\ \E r \in 1..Len(requests) :
       /\ requests[r].turn = turn[2].id
       /\ Cardinality({k \in 1..Len(requests[r].messages) :
                         requests[r].messages[k].role = "user"}) = 2

\* The tool message content is an error text.
IsErrorText(content) ==
  content.t = "string" /\ Len(content.v) >= 1 /\ content.v[1] = "Error: "

ResultMessages ==
  SelectSeq(state.messages, LAMBDA m : m.role = "tool" /\ ~IsErrorText(m.content))

\* C10 as stated: every invocation of a registered tool that has settled,
\* failed ones included, has just put a record on toolCalls, a failed one
\* with the error text as its response.
C10_RecordForEveryInvocation ==
  \A t \in Slots :
    LET tr == turn[t]
        n == Len(state.toolCalls)
    IN (last.slot = t /\ last.op \in {"toolReturns", "toolThrows", "validationRejects"}) =>
         /\ n > 0
         /\ state.toolCalls[n].id = tr.toolCalls[tr.i].id
         /\ state.toolCalls[n].name = tr.toolCalls[tr.i].name
         /\ last.op # "toolReturns" => state.toolCalls[n].response.t = "string"

\* C10 amended: toolCalls holds one record {id, name, args, response} for
\* every invocation that returned a result, in order, and none for an
\* invocation whose validation or execution failed (that one leaves only
\* its error tool message).
C10_RecordsForResultsOnly ==
  /\ Len(state.toolCalls) = Len(ResultMessages)
  /\ \A k \in 1..Len(state.toolCalls) :
       /\ ResultMessages[k].tool_call_id = state.toolCalls[k].id
       /\ ResultMessages[k].content = JSONStringify(state.toolCalls[k].response)
       /\ has(registry, state.toolCalls[k].name)
       /\ state.toolCalls[k].args.t = "object"

C10_Witness ==
  /\ last.op \in {"toolThrows", "validationRejects"}
  /\ Len(state.toolCalls) = 1
  /\ ToolMessageCount(state.messages) = 2

\* The names of the first n calls of a turn, in order.
NamesOf(calls, n) == [k \in 1..n |-> calls[k].name]

\* C11: the toolsUsed a turn returns is the sequence of the names of all
\* extracted calls, in extraction order and with repetitions (the loop has
\* pushed the names of the calls it is done with); it is empty exactly when
\* no call was extracted.
C11_ToolsUsedIsExtractedNames ==
  \A t \in Slots :
    LET tr == turn[t]
    IN tr.id > 0 =>
         /\ Len(tr.toolsUsed) <= Len(tr.toolCalls)
         /\ tr.toolsUsed = NamesOf(tr.toolCalls, Len(tr.toolsUsed))
         /\ (Settled(tr) /\ tr.outcome.status = "resolved") =>
              /\ tr.outcome.toolsUsed = NamesOf(tr.toolCalls, Len(tr.toolCalls))
              /\ tr.outcome.toolsUsed = <<>> <=> tr.toolCalls = <<>>

C11_Witness ==
  \E t \in Slots :
    /\ Settled(turn[t]) /\ turn[t].outcome.status = "resolved"
    /\ turn[t].outcome.toolsUsed = <<"get_weather", "calculator">>
    /\ ~has(registry, "get_weather")

\* C12: the first request of a turn carries a tools field exactly when the
\* registry is not empty, and the field is then the function definitions of
\* the registered tools in registry order; the final request carries none.
C12_ToolsFieldOnFirstRequestOnly ==
  \A t \in Slots :
    LET tr == turn[t]
        reqs == RequestsOf(tr.id)
    IN tr.id > 0 =>
         /\ Len(reqs) >= 2 => ~reqs[2].has_tools /\ reqs[2].tools = <<>>
         /\ tr.pc # "Idle" =>
              /\ reqs[1].has_tools <=> registry # <<>>
              /\ reqs[1].has_tools =>
                   /\ Len(reqs[1].tools) = Len(registry)
                   /\ \A k \in 1..Len(registry) :
                        reqs[1].tools[k] = getFunctionDefinition(registry[k])

C12_Witness ==
  \E t \in Slots :
    /\ turn[t].pc = "AwaitingFinalModel"
    /\ Len(registry) = 2
    /\ Len(RequestsOf(turn[t].id)[1].tools) = 2
    /\ \E s \in 1..Len(requests) : ~requests[s].has_tools /\ requests[s].turn < turn[t].id

\* C13: a turn has emitted an error event exactly if it was rejected, and a
\* rejection carries the failure of a model request; tool-level failures
\* (validation, execution, tool not found) emit no error event and leave the
\* turn to resolve.
C13_ErrorEventIffRejected ==
  \A t \in Slots :
    LET tr == turn[t]
        errs == EventsOf(tr.id, "error")
    IN tr.id > 0 =>
         /\ Len(errs) > 0 <=> (Settled(tr) /\ tr.outcome.status = "rejected")
         /\ Len(errs) <= 1
         /\ Len(errs) = 1 => errs[1].error = UpstreamError
         /\ (tr.pc = "Idle" /\ last.op = "finalResponds" /\ last.slot = t) =>
              tr.outcome.status = "resolved"

C13_Witness ==
  \E t \in Slots :
    /\ Settled(turn[t]) /\ turn[t].outcome.status = "resolved"
    /\ EventsOf(turn[t].id, "error") = <<>>
    /\ Len(turn[t].toolCalls) = 2
    /\ ~has(registry, turn[t].toolCalls[1].name)
    /\ \E j \in 1..Len(TurnMessages) :
         /\ TurnMessages[j].role = "tool"
         /\ TurnMessages[j].content = Str(<<"Error: ", "boom">>)

\* The state right after a prompt refresh: construction, reset, a
\* registerTools that returned, or the synchronous start of processInput.
Refreshed ==
  \/ last.op \in {"constructor", "reset", "processInput"}
  \/ last.op = "registerTools" /\ last.ok

\* The tokens of the system message's content.
SystemText == state.messages[1].content.v

\* How many times the text x occurs in toks, and how many times it occurs
\* right after the text lead.
Count(toks, x) == Cardinality({i \in 1..Len(toks) : toks[i] = x})

CountAfter(toks, lead, x) ==
  Cardinality({i \in 1..(Len(toks) - 1) : toks[i] = lead /\ toks[i + 1] = x})

\* C14 as stated: after a refresh with a non-empty registry, messages[0] is
\* the system message and its content contains the name of every registered
\* tool exactly once and its description exactly once.
C14_NameAndDescriptionOnce ==
  (Refreshed /\ registry # <<>>) =>
    /\ state.messages[1].role = "system"
    /\ \A k \in 1..Len(registry) :
         /\ Count(SystemText, registry[k].name) = 1
         /\ Count(SystemText, registry[k].description) = 1

\* C14 amended: after a refresh with a non-empty registry, messages[0] is
\* the system message and its content holds one section per registered
\* tool, in registry order; the section gives the tool's description once
\* (its Description line) and its name twice (its Tool line and its
\* Example usage line).
C14_OneSectionPerTool ==
  (Refreshed /\ registry # <<>>) =>
    /\ state.messages[1].role = "system"
    /\ Count(SystemText, "Tool: ") = Len(registry)
    /\ \A k \in 1..Len(registry) :
         /\ CountAfter(SystemText, "Tool: ", registry[k].name) = 1
         /\ CountAfter(SystemText, "Description: ", registry[k].description) = 1
         /\ CountAfter(SystemText, "Example usage: Call the ", registry[k].name) = 1
         /\ Count(SystemText, registry[k].description) = 1
         /\ Count(SystemText, registry[k].name) = 2
    /\ \A j, k \in 1..Len(registry) :
         j < k =>
           \E a, b \in 1..(Len(SystemText) - 1) :
             /\ a < b
             /\ SystemText[a] = "Tool: " /\ SystemText[a + 1] = registry[j].name
             /\ SystemText[b] = "Tool: " /\ SystemText[b + 1] = registry[k].name

C14_Witness ==
  /\ last.op = "registerTools" /\ last.ok
  /\ registry = <<CalculatorTool, WeatherTool>>
  /\ Count(SystemText, "get_weather") = 2

\* C15 as stated: while the registry is empty the content of the system
\* message is the base prompt: the configured systemPrompt or, if none was
\* configured, the default sentence.
C15_EmptyRegistryBasePrompt ==
  registry = <<>> =>
    /\ state.messages[1].role = "system"
    /\ state.messages[1].content = Str(baseSystemPrompt(config))

\* The prompt refresh applied to the current state.
RefreshOnce == updateSystemPromptWithTools(state.messages, registry, config)

RefreshTwice == updateSystemPromptWithTools(RefreshOnce, registry, config)

\* C16: the prompt refresh is idempotent: in every state, running it a
\* second time changes nothing, and a run changes no message but
\* messages[0]; and a step that leaves the registry as it is, taken from a
\* state whose prompt is up to date, leaves messages[0] as it is.
C16_RefreshIdempotent ==
  /\ [](/\ RefreshTwice = RefreshOnce
        /\ Len(RefreshOnce) = Len(state.messages)
        /\ \A i \in 2..Len(state.messages) : RefreshOnce[i] = state.messages[i])
  /\ [][(registry' = registry /\ RefreshOnce = state.messages) =>
          state'.messages[1] = state.messages[1]]_vars

C16_Witness ==
  /\ started = 2 /\ last.op = "processInput"
  /\ registry # <<>> /\ registers = 0 /\ resets = 0
  /\ Len(requests) >= 2
  /\ state.messages[1].content = requests[1].messages[1].content
  /\ Count(SystemText, "Tool: ") = Len(registry)

\* C17: when registerTools returns, every tool of the batch is in the
\* registry and the system message already describes every registered tool.
C17_RegisterToolsRefreshes ==
  [][\A tools \in Batches :
       (registerTools(tools) /\ last'.ok) =>
         /\ \A k \in 1..Len(tools) : has(registry', tools[k].name)
         /\ state'.messages[1].role = "system"
         /\ state'.messages[1].content =
              Str(baseSystemPrompt(config) \o <<"\n\n">> \o toolsDescription(registry'))
         /\ \A k \in 1..Len(registry') :
              CountAfter(state'.messages[1].content.v, "Tool: ", registry'[k].name) = 1]_vars

C17_Witness ==
  /\ last.op = "registerTools" /\ last.ok
  /\ has(registry, "calculator") /\ has(registry, "get_weather")
  /\ started < MaxTurns
  /\ CountAfter(SystemText, "Tool: ", "get_weather") = 1

\* In a one-turn history the first response is the message after the
\* system and the user message; FirstHandled says it has been received.
FirstHandled == Len(state.messages) >= 3 /\ state.messages[3].role = "assistant"

FirstResponse == state.messages[3]

\* C18: the extractor reads the structured tool_calls list first, then the
\* legacy function_call field, then a fenced json block, and does not
\* merge: a response with a tool_calls list yields exactly that list,
\* whatever else it carries; without one, a function_call yields exactly
\* that one call, whatever the content holds.
C18_ExtractionPrecedence ==
  FirstHandled =>
    LET m == FirstResponse
        calls == turn[1].toolCalls
    IN /\ m.has_tool_calls => calls = m.tool_calls
       /\ (~m.has_tool_calls /\ m.has_function_call) =>
            /\ Len(calls) = 1
            /\ calls[1].name = m.function_call.name
            /\ calls[1].arguments = m.function_call.arguments
       /\ (~m.has_tool_calls /\ ~m.has_function_call /\ calls # <<>>) =>
            /\ Len(calls) = 1
            /\ m.content \in {FencedObjectArguments, FencedStringArguments}

C18_Witness ==
  /\ FirstHandled
  /\ FirstResponse.has_tool_calls /\ FirstResponse.has_function_call
  /\ FirstResponse.content = FencedObjectArguments
  /\ FirstResponse.function_call.name = "get_weather"
  /\ turn[1].toolCalls = <<ToolCall("call-a", "calculator", ValidCalculatorArgs)>>

\* C19: for a response without tool_calls and function_call whose content
\* is prose, or holds a fenced block that does not parse or that parses to
\* an object without name or without arguments, the extractor returns no
\* call and does not fail: the turn ends as a final answer, with one model
\* request, the content as its message and an empty toolsUsed.
C19_ExtractorFallsThrough ==
  (/\ FirstHandled
   /\ ~FirstResponse.has_tool_calls /\ ~FirstResponse.has_function_call
   /\ FirstResponse.content \in {ProseContent, UnparsableFence, FenceWithoutArguments,
                                 FenceWithoutName, UnclosedFence}) =>
    /\ turn[1].toolCalls = <<>>
    /\ turn[1].pc = "Idle"
    /\ turn[1].outcome = Outcome("resolved", FirstResponse.content.v, <<>>, NoFailure)
    /\ Len(requests) = 1
    /\ Len(state.messages) = 3
    /\ \A j \in 1..Len(emitted) : emitted[j].event # "error"

C19_Witness ==
  /\ FirstHandled
  /\ ~FirstResponse.has_tool_calls /\ ~FirstResponse.has_function_call
  /\ FirstResponse.content = UnparsableFence
  /\ turn[1].outcome.status = "resolved"

\* C20 as stated: every call the extractor returns has a string as its
\* arguments, whichever shape it was read from.
C20_ArgumentsAlwaysString ==
  \A t \in Slots :
    \A k \in 1..Len(turn[t].toolCalls) : turn[t].toolCalls[k].arguments.t = "string"

\* C20 amended: a call read from a fenced json block has a string as its
\* arguments (an object is serialized to its JSON text, a string is kept);
\* a call read from the tool_calls list or the function_call field has the
\* arguments it was received with, string or object.
C20_FencedArgumentsSerialized ==
  FirstHandled =>
    LET m == FirstResponse
        calls == turn[1].toolCalls
    IN /\ (~m.has_tool_calls /\ ~m.has_function_call) =>
            /\ \A k \in 1..Len(calls) : calls[k].arguments.t = "string"
            /\ m.content = FencedObjectArguments =>
                 calls = <<ToolCall(calls[1].id, "calculator",
                                    JSONStringify(Obj(<<"expression", "3 * 3">>)))>>
            /\ m.content = FencedStringArguments =>
                 calls = <<ToolCall(calls[1].id, "calculator", Str(<<"3 * 3">>))>>
       /\ m.has_tool_calls =>
            /\ Len(calls) = Len(m.tool_calls)
            /\ \A k \in 1..Len(calls) : calls[k].arguments = m.tool_calls[k].arguments
       /\ (~m.has_tool_calls /\ m.has_function_call) =>
            calls[1].arguments = m.function_call.arguments

C20_Witness ==
  /\ FirstHandled
  /\ ~FirstResponse.has_tool_calls /\ ~FirstResponse.has_function_call
  /\ FirstResponse.content = FencedObjectArguments
  /\ turn[1].pc = "AwaitingFinalModel"
  /\ Len(state.toolCalls) = 1
  /\ state.toolCalls[1].args = Obj(<<"expression", "3 * 3">>)

\* The ids extractToolCalls can generate, and the positions of the
\* tool-role messages of the conversation that answer a call with one.
SyntheticIds == {SyntheticId(c) : c \in 0..MaxNow}

SyntheticAnswers ==
  {i \in 1..Len(state.messages) :
     /\ state.messages[i].role = "tool"
     /\ state.messages[i].tool_call_id \in SyntheticIds}

\* C21 as stated: the ids generated for function_call and fenced-json calls
\* are unique, so no two tool-role messages of the conversation that answer
\* two such calls carry the same tool_call_id.
C21_SyntheticIdsUnique ==
  \A i, j \in SyntheticAnswers :
    i # j => state.messages[i].tool_call_id # state.messages[j].tool_call_id

\* The first response carries a tool_calls list that is present and empty
\* together with a call in a later shape (function_call or fenced json).
EmptyListWithLaterCall ==
  /\ FirstHandled
  /\ FirstResponse.has_tool_calls /\ FirstResponse.tool_calls = <<>>
  /\ \/ FirstResponse.has_function_call
     \/ FirstResponse.content \in {FencedObjectArguments, FencedStringArguments}

\* C22 as stated: the extractor takes the first non-empty result, so a
\* response whose tool_calls list is present but empty and which carries a
\* function_call or a valid fenced call yields that later call.
C22_FirstNonEmptyResult ==
  EmptyListWithLaterCall =>
    /\ Len(turn[1].toolCalls) = 1
    /\ turn[1].toolCalls[1].name =
         IF FirstResponse.has_function_call THEN FirstResponse.function_call.name
         ELSE "calculator"

\* C22 amended: the extractor takes the first shape that is present, not
\* the first non-empty result.  A response whose tool_calls is an array,
\* even an empty one, yields exactly that array: with an empty array the
\* function_call and the fenced call are ignored, no tool runs and the turn
\* resolves as a final answer after one model request.  A call with a
\* generated id is extracted only when tool_calls is not an array.
C22_PresentListReturnedAsIs ==
  /\ EmptyListWithLaterCall =>
       /\ turn[1].toolCalls = <<>>
       /\ turn[1].pc = "Idle"
       /\ turn[1].outcome.status = "resolved"
       /\ turn[1].outcome.toolsUsed = <<>>
       /\ Len(requests) = 1
       /\ executions = <<>>
  /\ (FirstHandled /\ \E k \in 1..Len(turn[1].toolCalls) :
                        turn[1].toolCalls[k].id \in SyntheticIds) =>
       ~FirstResponse.has_tool_calls

C22_Witness ==
  /\ EmptyListWithLaterCall
  /\ FirstResponse.has_function_call
  /\ FirstResponse.content = FencedObjectArguments
  /\ turn[1].outcome.status = "resolved"
  /\ turn[1].outcome.toolsUsed = <<>>

\* The parameters object of the definition sent with the first request, and
\* the schema it was generated from.
DefinitionSent == requests # <<>> /\ requests[1].has_tools

SentParameters == requests[1].tools[1].parameters

SentSchema == registry[1].schema

NotOptional(schema) == SelectSeq(schema, LAMBDA f : f.kind # "optional")

ListedIn(list, key) == \E i \in 1..Len(list) : list[i] = key

\* C29: the required array of a function definition lists exactly the
\* fields of the schema that are not optional, in schema order, and the
\* required key is absent when that list is empty (every field optional,
\* or no field).
C29_RequiredListsNonOptional ==
  DefinitionSent =>
    LET fields == NotOptional(SentSchema)
    IN /\ SentParameters.hasRequired = (fields # <<>>)
       /\ SentParameters.hasRequired =>
            SentParameters.required = [i \in 1..Len(fields) |-> fields[i].key]

C29_Witness ==
  /\ DefinitionSent
  /\ Len(SentSchema) = 2
  /\ \A i \in 1..2 : SentSchema[i].kind = "optional"
  /\ ~SentParameters.hasRequired
  /\ turn[1].outcome.status = "resolved"

\* C30 as stated: a field whose kind is not string, number, boolean, enum
\* or array is left out of the definition: its key is neither a key of
\* properties nor listed in required.
C30_UnsupportedOmitted ==
  DefinitionSent =>
    \A i \in 1..Len(SentSchema) :
      SentSchema[i].kind \notin SupportedKinds =>
        /\ \A j \in 1..Len(SentParameters.properties) :
             SentParameters.properties[j].name # SentSchema[i].key
        /\ ~ListedIn(SentParameters.required, SentSchema[i].key)

\* C30 amended: every field of the schema is a key of properties, in schema
\* order.  For a field of an unsupported kind the property is an empty
\* object (no type, no description, no enum), and the field is listed in
\* required unless it is a ZodOptional.
C30_UnsupportedKeptEmpty ==
  DefinitionSent =>
    /\ Len(SentParameters.properties) = Len(SentSchema)
    /\ \A i \in 1..Len(SentSchema) :
         LET f == SentSchema[i]
             property == SentParameters.properties[i]
         IN /\ property.name = f.key
            /\ f.kind \notin SupportedKinds =>
                 /\ property.type = "" /\ property.description = <<>> /\ property.enum = <<>>
                 /\ ListedIn(SentParameters.required, f.key) <=> f.kind # "optional"

C30_Witness ==
  /\ DefinitionSent
  /\ Len(SentSchema) = 2
  /\ SentSchema[1].kind = "other" /\ SentSchema[2].kind = "optional"
  /\ SentParameters.required = <<"param1">>
  /\ Len(SentParameters.properties) = 2

\* A step that is a call of op on target (a registry used on its own).
Calls(target, op) ==
  /\ direct'.calls = direct.calls + 1
  /\ direct'.target = target
  /\ direct'.op = op

\* The position in a batch of the first tool whose name is registered or
\* occurs earlier in the batch; 0 when there is none.
FirstDuplicate(reg, tools) ==
  LET dup(i) == \/ \E k \in 1..Len(reg) : reg[k].name = tools[i].name
                \/ \E j \in 1..(i - 1) : tools[j].name = tools[i].name
  IN IF \E i \in 1..Len(tools) : dup(i)
     THEN CHOOSE i \in 1..Len(tools) : dup(i) /\ \A j \in 1..(i - 1) : ~dup(j)
     ELSE 0

AlreadyRegistered(name) ==
  <<"Tool with name \"", name, "\" is already registered">>

\* C23: the ToolRegistry holds at most one tool per name at all times; a
\* registerTool with a registered name throws "Tool with name ... is
\* already registered" and leaves the registry unchanged: the instance
\* registered first stays the one getTool returns, and getAllTools keeps
\* its count and order.
C23_DuplicateNameRejected ==
  /\ [](\A i, j \in 1..Len(registry) : registry[i].name = registry[j].name => i = j)
  /\ [][(/\ Calls("ToolRegistry", "registerTool")
          /\ \E k \in 1..Len(registry) : registry[k].name = direct'.name) =>
         /\ direct'.status = "threw"
         /\ direct'.error.message = AlreadyRegistered(direct'.name)
         /\ getTool(registry', direct'.name) = getTool(registry, direct'.name)
         /\ getAllTools(registry') = getAllTools(registry)]_vars

C23_Witness ==
  /\ direct.target = "ToolRegistry" /\ direct.op = "registerTool"
  /\ direct.tools = <<ReplacementTool>>
  /\ direct.status = "threw"
  /\ getTool(registry, "calculator") = CalculatorTool
  /\ Len(getAllTools(registry)) = 2

\* C24: ToolRegistry.registerTools registers the tools of the batch in
\* order and is not atomic: with a name in the batch that is registered
\* already or repeated inside the batch, the call throws at the first such
\* tool, the tools before it in the batch are registered and the tools
\* after it are not; without one, the whole batch is registered.
C24_BatchStopsAtFirstDuplicate ==
  [][Calls("ToolRegistry", "registerTools") =>
       LET tools == direct'.tools
           k == FirstDuplicate(registry, tools)
       IN IF k = 0
          THEN /\ direct'.status = "returned"
               /\ registry' = registry \o tools
          ELSE /\ direct'.status = "threw"
               /\ direct'.error.message = AlreadyRegistered(tools[k].name)
               /\ registry' = registry \o SubSeq(tools, 1, k - 1)]_vars

C24_Witness ==
  /\ direct.target = "ToolRegistry" /\ direct.op = "registerTools"
  /\ direct.calls = 1
  /\ direct.tools = <<CalculatorTool, ReplacementTool, WeatherTool>>
  /\ direct.status = "threw"
  /\ registry = <<CalculatorTool>>

\* C25: ToolRegistry.executeTool validates before it invokes: the tool's
\* execute is invoked only with arguments that satisfy the tool's schema
\* (the parsed value of the arguments received); for arguments that fail
\* the schema executeTool rejects and execute is not invoked; for a name
\* that is not registered it rejects with 'Tool "<name>" not found' and
\* invokes nothing.
C25_ValidateThenInvoke ==
  (direct.target = "ToolRegistry" /\ direct.op = "executeTool") =>
    IF \A k \in 1..Len(registry) : registry[k].name # direct.name
    THEN /\ direct.status = "threw"
         /\ direct.error.message = <<"Tool \"", direct.name, "\" not found">>
         /\ ~direct.invoked
    ELSE LET tool == getTool(registry, direct.name)
         IN /\ ZodIssues(tool.schema, direct.args) # <<>> =>
                 /\ direct.status = "threw"
                 /\ direct.error.name = "ZodError"
                 /\ ~direct.invoked
            /\ direct.invoked =>
                 /\ ZodIssues(tool.schema, direct.passed) = <<>>
                 /\ direct.passed = Obj(StripUnknown(tool.schema, direct.args))

C25_Witness ==
  /\ direct.target = "ToolRegistry" /\ direct.op = "executeTool"
  /\ direct.name = "calculator" /\ direct.args = Obj(<<>>)
  /\ \E k \in 1..Len(registry) : registry[k].name = "calculator"
  /\ direct.status = "threw"
  /\ ~direct.invoked

\* An executeTool call whose tool was invoked and failed.
ExecuteFailed ==
  direct.op = "executeTool" /\ direct.invoked /\ direct.status = "threw"

WrappedMessage ==
  <<"Error executing tool \"", direct.name, "\": ">> \o direct.thrown

\* C26 as stated: when the tool's execute fails with message m, executeTool
\* rejects with the message 'Error executing tool "<name>": m'.
C26_FailureWrapped ==
  ExecuteFailed => direct.error.message = WrappedMessage

\* C26 amended: when the tool's execute fails with message m,
\* ToolManager.executeTool rejects with 'Error executing tool "<name>": m',
\* and ToolRegistry.executeTool rejects with the tool's own error, whose
\* message is m.
C26_WrappedByManagerOnly ==
  ExecuteFailed =>
    /\ direct.target = "ToolManager" => direct.error.message = WrappedMessage
    /\ direct.target = "ToolRegistry" => direct.error.message = direct.thrown

C26_Witness ==
  /\ ExecuteFailed
  /\ direct.target = "ToolRegistry"
  /\ direct.name = "calculator"
  /\ direct.thrown = <<"boom">>
  /\ direct.error.message = <<"boom">>

\* C27: getAllTools returns the tools in insertion order (a registration
\* adds at the end and moves nothing), getFunctionDefinitions returns one
\* definition per registered tool in that order, and a failed registerTool
\* leaves the order as it was.
C27_InsertionOrder ==
  /\ [](LET tools == getAllTools(registry)
            defs == getFunctionDefinitions(registry)
        IN /\ Len(defs) = Len(tools)
           /\ \A i \in 1..Len(tools) :
                /\ defs[i].name = tools[i].name
                /\ defs[i].description = tools[i].description)
  /\ [][/\ Len(getAllTools(registry')) >= Len(getAllTools(registry))
        /\ SubSeq(getAllTools(registry'), 1, Len(getAllTools(registry))) = getAllTools(registry)
        /\ (Calls("ToolRegistry", "registerTool") /\ direct'.status = "threw") =>
             getAllTools(registry') = getAllTools(registry)]_vars

C27_Witness ==
  /\ getAllTools(registry) = <<WeatherTool, CalculatorTool>>
  /\ direct.target = "ToolRegistry" /\ direct.op = "registerTool"
  /\ direct.status = "threw"
  /\ getFunctionDefinitions(registry)[1].name = "get_weather"

\* C28: ToolManager.registerTool with a registered name does not fail and
\* warns; afterwards getTool(name) is the instance just registered and
\* getAllTools holds one tool of that name, the other tools as before.
C28_ManagerOverwrites ==
  [][(/\ Calls("ToolManager", "registerTool")
      /\ \E k \in 1..Len(manager) : manager[k].name = direct'.name) =>
       /\ direct'.status = "returned"
       /\ direct'.warned
       /\ getTool(manager', direct'.name) = direct'.tools[1]
       /\ Cardinality({k \in 1..Len(manager') : manager'[k].name = direct'.name}) = 1
       /\ Len(getAllTools(manager')) = Len(getAllTools(manager))
       /\ \A k \in 1..Len(manager) :
            manager[k].name # direct'.name => manager'[k] = manager[k]]_vars

C28_Witness ==
  /\ direct.target = "ToolManager" /\ direct.op = "registerTool"
  /\ direct.warned
  /\ direct.tools = <<ReplacementTool>>
  /\ getTool(manager, "calculator") = ReplacementTool
  /\ Len(getAllTools(manager)) = 2

\* The positions of the events emitted by the step.
NewEvents == (Len(emitted) + 1)..Len(emitted')

\* C31: emitting an event calls, inside the emitting step, the listeners
\* subscribed to that event at that moment, once per subscription and in
\* subscription order, with the event and its data, and calls no listener
\* subscribed to other events only; subscribing adds the listener at the
\* end of its event's list and emits nothing.
C31_ListenersCalledInOrder ==
  /\ [][\A j \in NewEvents : emitted'[j].listeners = eventListeners[emitted'[j].event]]_vars
  /\ [][eventListeners' # eventListeners =>
         /\ emitted' = emitted
         /\ \E event \in AgentEvents, listener \in Listeners :
              eventListeners' = [eventListeners EXCEPT ![event] = Append(@, listener)]]_vars

C31_Witness ==
  /\ eventListeners["tool_start"] = <<"second", "first">>
  /\ Len(emitted) = 4
  /\ emitted[1].event = "thinking" /\ emitted[1].listeners = <<>>
  /\ emitted[3].event = "tool_start" /\ emitted[3].listeners = <<"second", "first">>
  /\ emitted[4].event = "tool_end" /\ emitted[4].listeners = <<>>

\* The thinking events that processInput emits in its opening segment.
OpeningThinking ==
  {j \in 1..Len(emitted) :
     /\ emitted[j].event = "thinking"
     /\ emitted[j].text[1] = "Agent has access to "}

\* C32 as stated: the system prompt is refreshed before thinking is
\* emitted, so the system message a thinking listener reads is the one
\* the turn's first request carries, which reflects the current registry.
C32_ThinkingSeesRefreshedPrompt ==
  \A j \in OpeningThinking :
    emitted[j].system = RequestsOf(emitted[j].turn)[1].messages[1].content

\* C32 amended: processInput appends the user message, emits thinking (only
\* if a tool is registered), then refreshes the system prompt, then
\* dispatches the first request.  The thinking listener reads the system
\* message as it was before the call; the request carries the refreshed
\* one, with the user message last.
C32_ThinkingBeforeRefresh ==
  [][started' = started + 1 =>
       LET request == requests'[Len(requests')]
       IN /\ Len(requests') = Len(requests) + 1
          /\ request.messages = state'.messages
          /\ request.messages = updateSystemPromptWithTools(request.messages, registry, config)
          /\ Len(request.messages) = Len(state.messages) + 1
          /\ request.messages[Len(request.messages)].role = "user"
          /\ IF registry = <<>> THEN emitted' = emitted
             ELSE /\ Len(emitted') = Len(emitted) + 1
                  /\ emitted'[Len(emitted')].event = "thinking"
                  /\ emitted'[Len(emitted')].system = state.messages[1].content]_vars

C32_Witness ==
  \E j \in OpeningThinking :
    /\ emitted[j].text = <<"Agent has access to ", "2", " tools">>
    /\ Count(emitted[j].system.v, "get_weather") = 0
    /\ Count(RequestsOf(emitted[j].turn)[1].messages[1].content.v, "get_weather") = 2

\* The tool_start and tool_end events of a turn, in emission order.
ToolEventsOf(id) ==
  SelectSeq(emitted, LAMBDA e : e.turn = id /\ e.event \in {"tool_start", "tool_end"})

\* Whether processToolCall gets past its lookup and its parsing for a call:
\* the tool is registered and the arguments are JSON text or an object.
Parses(call) == JSONParse(call.arguments).ok \/ TypeofObject(call.arguments)

ParsedArguments(call) ==
  IF JSONParse(call.arguments).ok THEN JSONParse(call.arguments).value ELSE call.arguments

\* The calls of a turn in progress that processToolCall was entered for and
\* that got past the lookup and the parsing, in call order.
StartedCalls(tr) ==
  SelectSeq([k \in Entered(tr) |-> tr.toolCalls[k]],
            LAMBDA call : has(registry, call.name) /\ Parses(call))

\* C33 as stated (for calls to registered tools): tool_start is emitted
\* once for each extracted call, before its arguments are parsed, so a turn
\* that has gone through all its calls has emitted as many tool_start
\* events as it has calls.
C33_ToolStartForEveryCall ==
  \A t \in Slots :
    (/\ turn[t].pc = "AwaitingFinalModel"
     /\ \A k \in 1..Len(turn[t].toolCalls) : has(registry, turn[t].toolCalls[k].name)) =>
      Len(EventsOf(turn[t].id, "tool_start")) = Len(turn[t].toolCalls)

\* C33 amended: tool_start is emitted after the arguments are parsed and
\* carries the parsed arguments: once, in call order, for each call whose
\* tool is registered and whose arguments are JSON text or an object, and
\* not at all for the other calls.  tool_end is emitted only by the step in
\* which the call's execute resolved, with its result, and in the turn's
\* events every tool_end comes right after the tool_start of the same
\* call, before the next tool_start.
C33_ToolStartAfterParse ==
  /\ [](\A t \in Slots :
          turn[t].pc # "Idle" =>
            LET starts == EventsOf(turn[t].id, "tool_start")
                calls == StartedCalls(turn[t])
                events == ToolEventsOf(turn[t].id)
            IN /\ Len(starts) = Len(calls)
               /\ \A k \in 1..Len(calls) :
                    /\ starts[k].tool = calls[k].name
                    /\ starts[k].value = ParsedArguments(calls[k])
               /\ \A j \in 1..Len(events) :
                    events[j].event = "tool_end" =>
                      /\ j > 1
                      /\ events[j - 1].event = "tool_start"
                      /\ events[j - 1].tool = events[j].tool)
  /\ [][\A j \in NewEvents :
          emitted'[j].event = "tool_end" =>
            /\ last'.op = "toolReturns"
            /\ Len(state'.toolCalls) = Len(state.toolCalls) + 1
            /\ state'.toolCalls[Len(state'.toolCalls)].response = emitted'[j].value]_vars

C33_Witness ==
  /\ turn[1].pc = "AwaitingFinalModel"
  /\ Len(turn[1].toolCalls) = 2
  /\ turn[1].toolCalls[1].arguments = GarbageArgs
  /\ has(registry, "get_weather")
  /\ Len(EventsOf(turn[1].id, "tool_start")) = 1
  /\ Len(EventsOf(turn[1].id, "tool_end")) = 1

\* The calls of a turn in progress that processToolCall was entered for,
\* whose tool is registered and whose arguments neither are JSON text nor
\* an object.
UnparsedCalls(tr) ==
  {k \in Entered(tr) : has(registry, tr.toolCalls[k].name) /\ ~Parses(tr.toolCalls[k])}

\* C34 as stated: when the arguments of a call cannot be parsed and are no
\* object, the parse failure is propagated: once processToolCall has been
\* entered for that call the turn has failed with the parse error.
C34_ParseFailurePropagates ==
  \A t \in Slots :
    \A k \in UnparsedCalls(turn[t]) :
      turn[t].pc = "Idle" /\ turn[t].outcome.status = "rejected"

\* C34 amended: when the arguments of a call to a registered tool cannot
\* be parsed and are no object, the parse error is caught inside
\* processToolCall: a tool-role message "Error: <parse message>" tagged
\* with the call id is appended, tool_start is not emitted, the tool's
\* execute is not invoked for that call, no error event is emitted and the
\* turn goes on with the next call.  Arguments that are an object already
\* are used as they are.
C34_ParseFailureAbsorbed ==
  \A t \in Slots :
    LET tr == turn[t]
    IN tr.pc # "Idle" =>
         /\ \A k \in UnparsedCalls(tr) :
              LET call == tr.toolCalls[k]
              IN /\ \E i \in 1..Len(state.messages) :
                      state.messages[i] =
                        ToolMessage(Str(<<"Error: ">> \o JSONParse(call.arguments).message),
                                    call.id)
                 /\ \A i \in 1..Len(executions) :
                      executions[i].turn = tr.id => executions[i].index # k
                 /\ EventsOf(tr.id, "error") = <<>>
                 /\ Len(EventsOf(tr.id, "tool_start")) = Len(StartedCalls(tr))
         /\ (/\ tr.pc = "ExecutingTool"
             /\ TypeofObject(tr.toolCalls[tr.i].arguments)
             /\ ~JSONParse(tr.toolCalls[tr.i].arguments).ok) =>
              /\ tr.args = tr.toolCalls[tr.i].arguments
              /\ emitted[Len(emitted)].value = tr.toolCalls[tr.i].arguments

C34_Witness ==
  /\ turn[1].pc = "AwaitingFinalModel"
  /\ UnparsedCalls(turn[1]) = {1}
  /\ turn[1].toolCalls[1].arguments = GarbageArgs
  /\ Len(ExecutionsOf(turn[1].id)) = 2
  /\ state.messages[Len(state.messages) - 1].tool_call_id = "call-a"
  /\ state.messages[Len(state.messages)].tool_call_id = "call-b"

C38_FinalCallsIgnored ==
  [][\A t \in Slots :
       (turn[t].pc = "AwaitingFinalModel" /\ turn'[t] # turn[t] /\ last'.ok) =>
         /\ Len(state'.messages) = Len(state.messages) + 1
         /\ state'.messages[Len(state'.messages)].role = "assistant"
         /\ SubSeq(state'.messages, 1, Len(state.messages)) = state.messages
         /\ state'.toolCalls = state.toolCalls
         /\ executions' = executions
         /\ requests' = requests
         /\ turn'[t].pc = "Idle"
         /\ turn'[t].outcome.status = "resolved"
         /\ turn'[t].outcome.toolsUsed = turn[t].toolsUsed]_vars

C38_Witness ==
  /\ Settled(turn[1])
  /\ last.op = "finalResponds"
  /\ state.messages[Len(state.messages)].has_tool_calls
  /\ state.messages[Len(state.messages)].tool_calls # <<>>
  /\ turn[1].outcome.toolsUsed = <<"calculator">>
  /\ Len(ExecutionsOf(turn[1].id)) = 2

\* The number of times execute was invoked for call number k of turn id.
Invocations(id, k) ==
  Cardinality({i \in 1..Len(executions) :
                 /\ executions[i].turn = id /\ executions[i].index = k
                 /\ executions[i].phase = "invoke"})

\* C36: if the collaborator and the tools settle, a processInput call that
\* was made resolves or rejects, whatever calls were extracted; and nothing
\* is retried: a turn dispatches at most two model requests and invokes
\* execute at most once for each extracted call.
C36_TurnsSettle ==
  /\ (turn[1].pc # "Idle") ~>
       (turn[1].pc = "Idle" /\ turn[1].outcome.status \in {"resolved", "rejected"})
  /\ [](/\ Len(RequestsOf(turn[1].id)) <= 2
        /\ \A k \in 1..Len(turn[1].toolCalls) : Invocations(turn[1].id, k) <= 1
        /\ Len(ExecutionsOf(turn[1].id)) <= 2 * Len(turn[1].toolCalls))

C36_Witness ==
  /\ Settled(turn[1])
  /\ turn[1].outcome.status = "resolved"
  /\ Len(turn[1].toolCalls) = 2
  /\ Invocations(turn[1].id, 1) = 1
  /\ Invocations(turn[1].id, 2) = 0
  /\ \E i \in 1..Len(state.messages) : state.messages[i] = ErrorMessage(<<"boom">>, turn[1].toolCalls[1])
  /\ Len(RequestsOf(turn[1].id)) = 2

\* Reading the roles of a message log from left to right: where the reader
\* stands after each message.  "start": nothing read; "turns": the system
\* message read; "asked": a user message read; "answered": the first
\* assistant message of the turn read; "tools": a tool message read;
\* "closed": the second assistant message read; "bad": the log is not the
\* system message followed by turns of the shape user, assistant or user,
\* assistant, tool messages, assistant.
AfterRole(at, role) ==
  CASE at = "start" /\ role = "system" -> "turns"
    [] at \in {"turns", "answered", "closed"} /\ role = "user" -> "asked"
    [] at = "asked" /\ role = "assistant" -> "answered"
    [] at \in {"answered", "tools"} /\ role = "tool" -> "tools"
    [] at \in {"answered", "tools"} /\ role = "assistant" -> "closed"
    [] OTHER -> "bad"

RECURSIVE AfterLog(_, _)
AfterLog(at, msgs) ==
  IF msgs = <<>> THEN at ELSE AfterLog(AfterRole(at, Head(msgs).role), Tail(msgs))

\* Every model request so far was answered or is still awaited: no
\* processInput call has failed.
CollaboratorAnswered == \A j \in 1..Len(emitted) : emitted[j].event # "error"

\* C37: in sequential use with a collaborator that answers every request,
\* the message log is the system message followed by turns, each completed
\* turn being user, assistant or user, assistant, zero or more tool
\* messages, assistant (the turn in progress being a beginning of one), so
\* a tool message stands only between the two assistant messages of a turn.
C37_LogShape ==
  CollaboratorAnswered =>
    /\ AfterLog("start", state.messages) # "bad"
    /\ AllIdle => AfterLog("start", state.messages) \in {"turns", "answered", "closed"}
    /\ \A t \in Slots :
         turn[t].pc = "AwaitingModel" => AfterLog("start", state.messages) = "asked"

C37_Witness ==
  /\ CollaboratorAnswered
  /\ AllIdle
  /\ [i \in 1..Len(state.messages) |-> state.messages[i].role] =
       <<"system", "user", "assistant", "tool", "tool", "assistant", "user", "assistant">>

\* The roles of the message log.
Roles == [i \in 1..Len(state.messages) |-> state.messages[i].role]

\* C39: a reset made while a processInput call is suspended replaces the
\* state and leaves the call in progress; when the call resumes, its
\* assistant message, tool messages and toolCalls records are appended to
\* the state that reset built, so histories with an assistant or tool
\* message and no user message before it are reached.
C39_InFlightAppendsLandAfterReset ==
  /\ [][resets' = resets + 1 =>
         /\ state' = resetState(registry, config)
         /\ turn' = turn]_vars
  /\ [][\A t \in Slots :
         /\ turn[t].pc \in {"AwaitingModel", "AwaitingFinalModel"}
         /\ turn'[t] # turn[t]
         /\ turn'[t].outcome.status # "rejected"
         => /\ Len(state'.messages) > Len(state.messages)
            /\ SubSeq(state'.messages, 1, Len(state.messages)) = state.messages
            /\ state'.messages[Len(state.messages) + 1].role = "assistant"]_vars
  /\ [][\A t \in Slots :
         /\ turn[t].pc = "ExecutingTool"
         /\ turn'[t].pc = "ToolDone"
         => /\ Len(state'.messages) = Len(state.messages) + 1
            /\ SubSeq(state'.messages, 1, Len(state.messages)) = state.messages
            /\ state'.messages[Len(state'.messages)].role = "tool"
            /\ SubSeq(state'.toolCalls, 1, Len(state.toolCalls)) = state.toolCalls
            /\ turn'[t].error = NoFailure =>
                 Len(state'.toolCalls) = Len(state.toolCalls) + 1]_vars

C39_Witness ==
  /\ resets = 1
  /\ AllIdle
  /\ Roles = <<"system", "tool", "assistant">>
  /\ Len(state.toolCalls) = 1

\* The names of the tools the system message describes, and the names of
\* the tools the registry holds.
DescribedTools ==
  {SystemText[i + 1] : i \in {j \in 1..(Len(SystemText) - 1) : SystemText[j] = "Tool: "}}

RegisteredTools == {registry[k].name : k \in 1..Len(registry)}

\* C40: whenever no agent operation is in progress and the registry is not
\* empty, the tools the system message describes are the tools of the
\* registry, also after a registerTools call that threw on a duplicate name
\* part-way through its batch.
C40_PromptMatchesRegistry ==
  (AllIdle /\ registry # <<>>) => DescribedTools = RegisteredTools

====
